---- MODULE Spec2Model ----
(***************************************************************************)
(* A model of the EMR data pipeline: the shaper of per-office workbooks    *)
(* (core/data_processor.py), the patient merge of the map generator        *)
(* (core/kml_generator.py) and their pure helpers.                         *)
(*                                                                         *)
(* Text values are sequences of one-character strings, so that the regular *)
(* expressions of the source are modelled by what they match.  A value     *)
(* that is not a Python str is a sequence whose first element is a tag     *)
(* ("NaN", "int") that is no character.                                    *)
(***************************************************************************)
EXTENDS Naturals, Integers, Sequences, FiniteSets, TLC

VARIABLES
    age_str,      \* extract_year_from_age: the argument
    age_ret,      \* extract_year_from_age: the value returned
    age_pc,       \* "call" before the call, "done" after it
    addr_in,      \* the row <<Address, City, State, Zip>> as read from the sheet
    addr_prev,    \* the row before the last normalization pass
    addr_row,     \* the row after the last normalization pass
    addr_passes,  \* the number of normalization passes applied to the row
    patient_dfs,  \* create_patient_pins_kml: the (df_name, df) pairs it is given
    processed_patients,  \* its dict, in insertion order: id, row, disciplines, org
    placemarks,   \* the placemarks of the returned KML document, in order
    kml_pc,       \* "call" before create_patient_pins_kml, "done" after it
    data_dir,     \* DATA_DIR: the input files of data_processor.main
    processed_dir,   \* PROCESSED_DIR: the files the runs have written
    pc,           \* where main is: start, need_staff, full_report, glob, sheets,
                  \* summary, done
    success_count,   \* main: the inputs processed so far in this run
    total_files,     \* main: the inputs counted so far in this run
    has_full_report, \* main: process_full_active_cases_report returned True
    excel_files,  \* main: the per-office workbooks in the order glob listed them
    file_idx,     \* main: the position in excel_files of the next workbook
    processed_dfs,   \* main: the tables process_excel_file has returned
    summary,      \* the counts of the closing line of the run, once it is logged
    run,          \* the number of the run of main under way
    first_out,    \* PROCESSED_DIR as the first run left it
    writes,       \* the files written in PROCESSED_DIR in this run, in order,
                  \* each with the step that wrote it
    pickle_locked,   \* the runs in which the pickle files cannot be written
    need_staff_file, \* comparator: NeedStaff.csv of PROCESSED_DIR, if it exists
    patient_files,   \* comparator: the *_Processed.csv files of PROCESSED_DIR
    sheet_values,    \* comparator: the rows A:I of the Need Staff worksheet
    sheet_updates,   \* comparator: the cell updates the worksheet has accepted
    update_count,    \* comparator: the value update_google_sheet returned
    cmp_ret,         \* comparator: the value compare_staff_data returned
    cmp_api_error,   \* comparator: some request to the Sheets API raised
    cmp_requests,    \* comparator: the write requests sent to the Sheets API
    cmp_pc           \* "call" before compare_staff_data, "done" after it

ageVars == <<age_str, age_ret, age_pc>>
addrVars == <<addr_in, addr_prev, addr_row, addr_passes>>
kmlVars == <<patient_dfs, processed_patients, placemarks, kml_pc>>
mainVars == <<data_dir, processed_dir, pc, success_count, total_files, has_full_report,
              excel_files, file_idx, processed_dfs, summary, run, first_out, writes,
              pickle_locked>>
sheetVars == <<need_staff_file, patient_files, sheet_values, sheet_updates, update_count,
               cmp_ret, cmp_api_error, cmp_requests, cmp_pc>>
vars == <<ageVars, addrVars, kmlVars, mainVars, sheetVars>>

----------------------------------------------------------------------------
(* Characters and strings *)

Digits == {"0","1","2","3","4","5","6","7","8","9"}
UpperSeq == <<"A","B","C","D","E","F","G","H","I","J","K","L","M",
              "N","O","P","Q","R","S","T","U","V","W","X","Y","Z">>
LowerSeq == <<"a","b","c","d","e","f","g","h","i","j","k","l","m",
              "n","o","p","q","r","s","t","u","v","w","x","y","z">>
Uppers == {UpperSeq[i] : i \in DOMAIN UpperSeq}
Lowers == {LowerSeq[i] : i \in DOMAIN LowerSeq}

IsDigit(c) == c \in Digits                                  \* \d
IsUpper(c) == c \in Uppers                                  \* [A-Z]
IsSpace(c) == c = " "                                       \* \s
IsWord(c)  == c \in Digits \cup Uppers \cup Lowers \cup {"_"}  \* \w

\* The value pandas reads from an empty cell, and an integer cell.
NaN == <<"NaN">>
IntCell(digits) == <<"int">> \o digits

\* isinstance(v, str)
isinstance_str(v) == v = <<>> \/ v[1] \notin {"NaN", "int", "float"}

\* Series.astype(str) on one cell
astype_str(v) ==
    IF v = NaN THEN <<"n","a","n">>
    ELSE IF ~isinstance_str(v) THEN Tail(v)
    ELSE v

lower_ch(c) ==
    IF c \in Uppers THEN LowerSeq[CHOOSE i \in DOMAIN UpperSeq : UpperSeq[i] = c] ELSE c

\* str.lower()
lower(s) == [i \in 1..Len(s) |-> lower_ch(s[i])]

\* sub occurs in s starting at index i
OccursAt(s, sub, i) ==
    /\ i >= 1
    /\ i + Len(sub) - 1 <= Len(s)
    /\ \A k \in 1..Len(sub) : s[i + k - 1] = sub[k]

\* a plain substring test (re.search of a literal)
Contains(s, sub) == \E i \in 1..(Len(s) + 1) : OccursAt(s, sub, i)

SetMin(S) == CHOOSE x \in S : \A y \in S : x <= y
SetMax(S) == CHOOSE x \in S : \A y \in S : x >= y

\* every string over alphabet A of length at most n
StringsUpTo(A, n) == UNION {[1..k -> A] : k \in 0..n}

\* the concatenation of a sequence of strings
RECURSIVE Concat(_)
Concat(ps) == IF ps = <<>> THEN <<>> ELSE Head(ps) \o Concat(Tail(ps))

----------------------------------------------------------------------------
(* extract_year_from_age *)

\* the start indices at which (\d+)y matches
AgeMatchStarts(s) ==
    {i \in 1..Len(s) :
        \E j \in i..(Len(s) - 1) :
            /\ \A k \in i..j : IsDigit(s[k])
            /\ s[j + 1] = "y"}

\* AgeGroup1 as it would be had the pattern been written (\d)y: one digit
AgeGroup1_OneDigit(s) ==
    LET j == SetMin({j \in 1..(Len(s) - 1) : IsDigit(s[j]) /\ s[j + 1] = "y"})
    IN SubSeq(s, j, j)

\* group(1) of re.search(r'(\d+)y', s): the leftmost match, \d+ greedy
AgeGroup1(s) ==
    LET i == SetMin(AgeMatchStarts(s))
        j == SetMax({j \in i..(Len(s) - 1) :
                        (\A k \in i..j : IsDigit(s[k])) /\ s[j + 1] = "y"})
    IN SubSeq(s, i, j)

extract_year_from_age(s) ==
    IF ~isinstance_str(s) THEN s
    ELSE IF AgeMatchStarts(s) # {} THEN AgeGroup1(s) \o <<"y">>
    ELSE s

----------------------------------------------------------------------------
(* clean_address and the regular expressions it uses *)

\* str.strip()
strip(s) ==
    LET idx == {i \in 1..Len(s) : ~IsSpace(s[i])}
    IN IF idx = {} THEN <<>> ELSE SubSeq(s, SetMin(idx), SetMax(idx))

\* the first index from i on that holds no whitespace (greedy \s*)
SkipSpaces(s, i) ==
    SetMin({j \in i..(Len(s) + 1) : j = Len(s) + 1 \/ ~IsSpace(s[j])})

NoMatch == [st |-> 0, zip |-> 0, end |-> 0]

\* \s*([A-Z]{2})\s*(\d{5}) matched from index `from`: where the state code and
\* the zip start and where the match ends; NoMatch when it does not match
MatchStateZip(s, from) ==
    IF from > Len(s) + 1 THEN NoMatch
    ELSE LET a == SkipSpaces(s, from)
             b == SkipSpaces(s, a + 2)
         IN IF /\ a + 1 <= Len(s)
               /\ IsUpper(s[a])
               /\ IsUpper(s[a + 1])
               /\ b + 4 <= Len(s)
               /\ \A k \in b..(b + 4) : IsDigit(s[k])
            THEN [st |-> a, zip |-> b, end |-> b + 4]
            ELSE NoMatch

\* re.findall(r'\b\d{5}\b', s): the start indices of the matches
ZipStarts(s) ==
    {i \in 1..(Len(s) - 4) :
        /\ \A k \in i..(i + 4) : IsDigit(s[k])
        /\ (i = 1 \/ ~IsWord(s[i - 1]))
        /\ (i + 4 = Len(s) \/ ~IsWord(s[i + 5]))}

\* zip_matches[-1]
LastZip(s) == LET i == SetMax(ZipStarts(s)) IN SubSeq(s, i, i + 4)

\* re.search(r'(.+?)(?:,\s*([A-Z]{2})\s*(\d{5}))?$', s): the index of the comma
\* that opens the optional group, 0 when the group takes no part in the match
LocationTailComma(s) ==
    LET C == {c \in 2..Len(s) :
                s[c] = "," /\ MatchStateZip(s, c + 1).end = Len(s)}
    IN IF C = {} THEN 0 ELSE SetMin(C)

\* re.search(r'(.+?)(?:,\s*([^,]+))(?:,\s*[A-Z]{2}\s*\d{5})$', s): the index of
\* the comma that ends group(1), 0 when there is no match
CityMatchComma(s) ==
    LET P == {p \in 2..Len(s) :
                /\ s[p] = ","
                /\ \E l \in (p + 2)..Len(s) :
                      /\ s[l] = ","
                      /\ \A k \in (p + 1)..(l - 1) : s[k] # ","
                      /\ MatchStateZip(s, l + 1).end = Len(s)}
    IN IF P = {} THEN 0 ELSE SetMin(P)

\* re.sub(r'[,\s]+$', '', s)
StripTrailingCommas(s) ==
    LET idx == {i \in 1..Len(s) : s[i] # "," /\ ~IsSpace(s[i])}
    IN IF idx = {} THEN <<>> ELSE SubSeq(s, 1, SetMax(idx))

\* re.sub(r',?\s+\d{5}$', '', s)
StripTrailingZip(s) ==
    LET n == Len(s)
    IN IF /\ n >= 6
          /\ \A k \in (n - 4)..n : IsDigit(s[k])
          /\ IsSpace(s[n - 5])
       THEN LET w == SetMin({i \in 1..(n - 5) : \A k \in i..(n - 5) : IsSpace(s[k])})
                start == IF w > 1 /\ s[w - 1] = "," THEN w - 1 ELSE w
            IN SubSeq(s, 1, start - 1)
       ELSE s

\* t ends with Apt\s+[\w\d]+
EndsWithApt(t) ==
    \E i \in 1..Len(t) :
        /\ OccursAt(t, <<"A","p","t">>, i)
        /\ \E w \in (i + 4)..Len(t) :
              /\ \A k \in (i + 3)..(w - 1) : IsSpace(t[k])
              /\ \A k \in w..Len(t) : IsWord(t[k])

\* re.sub(r'(Apt\s+[\w\d]+),\s*[^,]+$', r'\1', s)
StripAptCity(s) ==
    LET commas == {i \in 1..Len(s) : s[i] = ","}
    IN IF commas = {} THEN s
       ELSE LET l == SetMax(commas)
            IN IF l < Len(s) /\ EndsWithApt(SubSeq(s, 1, l - 1))
               THEN SubSeq(s, 1, l - 1)
               ELSE s

\* re.match(r'(.+),\s*([^,]+),\s*[A-Z]{2}\s*\d{5}', s): the index of the comma
\* that ends the greedy group(1), 0 when there is no match
StreetCityComma(s) ==
    LET P == {p \in 2..Len(s) :
                /\ s[p] = ","
                /\ \E q \in (p + 2)..Len(s) :
                      /\ s[q] = ","
                      /\ \A k \in (p + 1)..(q - 1) : s[k] # ","
                      /\ MatchStateZip(s, q + 1).end > 0}
    IN IF P = {} THEN 0 ELSE SetMax(P)

\* lines 189-206: the street part left by location_match and city_match
LocationPart(address) ==
    IF address = <<>> THEN address
    ELSE LET l == LocationTailComma(address)
             p == CityMatchComma(address)
         IN IF l = 0 THEN strip(address)
            ELSE IF p = 0 THEN strip(SubSeq(address, 1, l - 1))
            ELSE strip(SubSeq(address, 1, p - 1))

\* lines 217-220
StreetCityPart(s) ==
    LET p == StreetCityComma(s) IN IF p = 0 THEN s ELSE SubSeq(s, 1, p - 1)

\* The zip_code the function re-binds at lines 181-187 is a local that is
\* never returned: the result depends on the address alone.
clean_address(address, city, state, zip_code) ==
    IF ~isinstance_str(address) THEN address
    ELSE StreetCityPart(StripAptCity(StripTrailingZip(
             StripTrailingCommas(LocationPart(address)))))

\* re.search(r'([^,]+),\s*([A-Z]{2})\s*\d{5}', s): the index of the comma that
\* ends group(1), 0 when there is no match
CityStateComma(s) ==
    LET C == {c \in 2..Len(s) :
                /\ s[c] = ","
                /\ s[c - 1] # ","
                /\ MatchStateZip(s, c + 1).end > 0}
    IN IF C = {} THEN 0 ELSE SetMin(C)

\* CityStateGroup1 as it would be had group(1) been written (.+): from the
\* start of the address
CityStateGroup1_FromStart(s) == SubSeq(s, 1, CityStateComma(s) - 1)

\* group(1) of that match: [^,]+ from the leftmost start
CityStateGroup1(s) ==
    LET c == CityStateComma(s)
        before == {i \in 1..(c - 1) : s[i] = ","}
        start == IF before = {} THEN 1 ELSE SetMax(before) + 1
    IN SubSeq(s, start, c - 1)

\* group(2) of that match
CityStateGroup2(s) ==
    LET m == MatchStateZip(s, CityStateComma(s) + 1) IN SubSeq(s, m.st, m.st + 1)

\* process_excel_file, lines 427-449, on one row <<Address, City, State, Zip>>:
\* the address is cleaned, then the zip, city and state are corrected from the
\* location embedded in the original address
normalize_row(row) ==
    LET address == row[1]
        cleaned == clean_address(row[1], row[2], row[3], row[4])
        differs == /\ isinstance_str(address)
                   /\ ZipStarts(address) # {}
                   /\ LastZip(address) # row[4]
        found == differs /\ CityStateComma(address) # 0
    IN << cleaned,
          IF found THEN strip(CityStateGroup1(address)) ELSE row[2],
          IF found THEN CityStateGroup2(address) ELSE row[3],
          IF differs THEN LastZip(address) ELSE row[4] >>

----------------------------------------------------------------------------
(* create_patient_pins_kml: the merge of the per-sheet tables *)

\* A table (a DataFrame): its column names in order, and its rows, each a
\* function from column name to cell.
Table(cols, rows) == [cols |-> cols, rows |-> rows]

\* DataFrame.empty
df_empty(df) == df.rows = <<>> \/ df.cols = <<>>

\* str(v) of a cell
str_of(v) == astype_str(v)

\* pd.notna(v)
notna(v) == v # NaN

NoParse == [ok |-> FALSE, office |-> <<>>, discipline |-> <<>>]

\* (.+?)_(OT|PT)<rest> matched at the start of name: the shortest non-empty
\* office that is followed by _OT<rest> or _PT<rest>
ParseOfficeDiscipline(name, rest) ==
    LET K == {k \in 1..Len(name) :
                \/ OccursAt(name, <<"_","O","T">> \o rest, k + 1)
                \/ OccursAt(name, <<"_","P","T">> \o rest, k + 1)}
    IN IF K = {} THEN NoParse
       ELSE LET k == SetMin(K)
            IN [ok |-> TRUE,
                office |-> SubSeq(name, 1, k),
                discipline |-> SubSeq(name, k + 2, k + 3)]

ProcessedSuffix == <<"_","P","r","o","c","e","s","s","e","d",".","c","s","v">>

\* re.match(r'(.+?)_(OT|PT)_Processed\.csv', df_name)
ParseProcessedName(df_name) == ParseOfficeDiscipline(df_name, ProcessedSuffix)

\* the index in the dict of the entry for patient_id, 0 when it has none
EntryIndex(pp, patient_id) ==
    LET I == {i \in 1..Len(pp) : pp[i].id = patient_id}
    IN IF I = {} THEN 0 ELSE SetMin(I)

\* MergeRow as it would be had the else branch assigned set([disc]) instead
\* of adding to the set
MergeRow_Overwrite(pp, org, disc, row) ==
    LET patient_id == str_of(row["Patient_Id"])
        i == EntryIndex(pp, patient_id)
    IN IF i = 0
       THEN Append(pp, [id |-> patient_id, row |-> row, disciplines |-> {disc}, org |-> org])
       ELSE [pp EXCEPT ![i].disciplines = {disc}]

\* MergeRow as it would be had the else branch replaced the stored row and
\* office by those of the record at hand
MergeRow_LastWins(pp, org, disc, row) ==
    LET patient_id == str_of(row["Patient_Id"])
        i == EntryIndex(pp, patient_id)
    IN IF i = 0
       THEN Append(pp, [id |-> patient_id, row |-> row, disciplines |-> {disc}, org |-> org])
       ELSE [pp EXCEPT ![i].disciplines = @ \cup {disc}, ![i].row = row, ![i].org = org]

\* lines 341-352: one row of a sheet enters the dict
MergeRow(pp, org, disc, row) ==
    LET patient_id == str_of(row["Patient_Id"])
        i == EntryIndex(pp, patient_id)
    IN IF i = 0
       THEN Append(pp, [id |-> patient_id, row |-> row, disciplines |-> {disc}, org |-> org])
       ELSE [pp EXCEPT ![i].disciplines = @ \cup {disc}]

RECURSIVE MergeRows(_, _, _, _)
MergeRows(pp, org, disc, rows) ==
    IF rows = <<>> THEN pp
    ELSE MergeRows(MergeRow(pp, org, disc, Head(rows)), org, disc, Tail(rows))

\* lines 329-352: one (df_name, df) pair of the first pass
MergeSheet(pp, df_name, df) ==
    LET m == ParseProcessedName(df_name)
    IN IF m.ok /\ ~df_empty(df) THEN MergeRows(pp, m.office, m.discipline, df.rows)
       ELSE pp

\* lines 325-352: the first pass
RECURSIVE MergeAll(_, _)
MergeAll(pp, dfs) ==
    IF dfs = <<>> THEN pp
    ELSE MergeAll(MergeSheet(pp, Head(dfs)[1], Head(dfs)[2]), Tail(dfs))

PTandOT == <<"P","T"," ","a","n","d"," ","O","T">>

\* DisciplineLabel as it would be had it always taken next(iter(disciplines))
DisciplineLabel_AnyOne(disciplines) == CHOOSE d \in disciplines : TRUE

\* lines 403-408: the discipline shown for a patient
DisciplineLabel(disciplines) ==
    IF <<"P","T">> \in disciplines /\ <<"O","T">> \in disciplines
    THEN PTandOT
    ELSE CHOOSE d \in disciplines : TRUE

\* str.replace(old, new) for one-character old and new
replace_ch(s, old, new) == [i \in 1..Len(s) |-> IF s[i] = old THEN new ELSE s[i]]

\* line 371: f"{Address}, {City}, {State}, {Zip}"
FullAddress(row) ==
    str_of(row["Address"]) \o <<",", " ">> \o str_of(row["City"]) \o <<",", " ">>
        \o str_of(row["State"]) \o <<",", " ">> \o str_of(row["Zip"])

\* lines 357-415: the second pass, one placemark for each entry whose row has
\* a zip and an address (the icon style is left out)
RECURSIVE Placemarks(_)
Placemarks(pp) ==
    IF pp = <<>> THEN <<>>
    ELSE LET e == Head(pp)
         IN (IF notna(e.row["Zip"]) /\ notna(e.row["Address"])
             THEN << [name |-> e.id,
                      address |-> FullAddress(e.row),
                      Name |-> e.row["Name"],
                      Discipline |-> DisciplineLabel(e.disciplines),
                      Location |-> replace_ch(e.org, "_", " ")] >>
             ELSE <<>>) \o Placemarks(Tail(pp))

----------------------------------------------------------------------------
(* process_excel_file: the column resolver and the shaper *)

\* lines 290-300, in the order of the dict
column_mapping ==
    << <<"Patient Id", "Patient_Id">>, <<"First Name", "First_Name">>,
       <<"Last Name", "Last_Name">>, <<"Age", "Age">>, <<"Address", "Address">>,
       <<"City", "City">>, <<"State", "State">>, <<"Zip", "Zip">>,
       <<"Status", "Status">> >>

\* line 350
required_columns == <<"Patient_Id", "Address", "Status">>

\* the 0-based position tried for Status (lines 318-326)
StatusIndex == 21

NotAvailable == <<"N","/","A">>
NameNotAvailable == <<"[","N","a","m","e"," ","N","o","t"," ","A","v","a","i","l","a","b","l","e","]">>
KwActive == <<"a","c","t","i","v","e">>
KwHomeCare == <<"h","o","m","e"," ","c","a","r","e">>
KwPending == <<"p","e","n","d","i","n","g">>

Range(seq) == {seq[i] : i \in DOMAIN seq}

\* the 1-based position of header h in the sheet, 0 when it has none
ColumnOf(df, h) ==
    LET I == {i \in DOMAIN df.cols : df.cols[i] = h}
    IN IF I = {} THEN 0 ELSE SetMin(I)

\* str.contains('active|home care|pending') on one value
ContainsKeyword(s) ==
    Contains(s, KwActive) \/ Contains(s, KwHomeCare) \/ Contains(s, KwPending)

\* lines 320-321 and 334-335: df.iloc[:, idx].astype(str).str.lower()
\* .str.contains('active|home care|pending').any(), idx 1-based here
has_status_keywords(df, idx) ==
    \E r \in DOMAIN df.rows :
        ContainsKeyword(lower(astype_str(df.rows[r][df.cols[idx]])))

\* lines 302-308: the headers of column_mapping found in the sheet by name
NameMatched(df) ==
    SelectSeq(column_mapping, LAMBDA m : m[1] \in Range(df.cols))

Unbound == [tier |-> "none", col |-> 0]

\* StatusBinding as it would be had the position been tried without looking at
\* the values of the column
StatusBinding_NoSignature(df) ==
    IF "Status" \in Range(df.cols)
    THEN [tier |-> "name", col |-> ColumnOf(df, "Status")]
    ELSE IF Len(df.cols) > StatusIndex
    THEN [tier |-> "position", col |-> StatusIndex + 1]
    ELSE LET C == {i \in DOMAIN df.cols : has_status_keywords(df, i)}
         IN IF C = {} THEN Unbound ELSE [tier |-> "content", col |-> SetMin(C)]

\* the content scan tried before the fixed position
StatusBinding_ContentFirst(df) ==
    IF "Status" \in Range(df.cols)
    THEN [tier |-> "name", col |-> ColumnOf(df, "Status")]
    ELSE LET C == {i \in DOMAIN df.cols : has_status_keywords(df, i)}
         IN IF C # {} THEN [tier |-> "content", col |-> SetMin(C)]
            ELSE IF Len(df.cols) > StatusIndex /\ has_status_keywords(df, StatusIndex + 1)
            THEN [tier |-> "position", col |-> StatusIndex + 1]
            ELSE Unbound

\* lines 305-341: the source column (1-based) bound to Status and the tier
\* that bound it: by name, else position 21 when its values hold a status
\* keyword, else the first column whose values hold one
StatusBinding(df) ==
    IF "Status" \in Range(df.cols)
    THEN [tier |-> "name", col |-> ColumnOf(df, "Status")]
    ELSE IF Len(df.cols) > StatusIndex /\ has_status_keywords(df, StatusIndex + 1)
    THEN [tier |-> "position", col |-> StatusIndex + 1]
    ELSE LET C == {i \in DOMAIN df.cols : has_status_keywords(df, i)}
         IN IF C = {} THEN Unbound ELSE [tier |-> "content", col |-> SetMin(C)]

\* the canonical fields, in the order of selected_df.columns (lines 344-347)
SelectedFields(df) ==
    LET named == [i \in DOMAIN NameMatched(df) |-> NameMatched(df)[i][2]]
    IN IF "Status" \notin Range(df.cols) /\ StatusBinding(df).tier # "none"
       THEN Append(named, "Status")
       ELSE named

\* the source column (1-based) that supplies a selected canonical field
SourceColumn(df, field) ==
    IF field = "Status" THEN StatusBinding(df).col
    ELSE LET m == CHOOSE m \in Range(column_mapping) : m[2] = field
         IN ColumnOf(df, m[1])

\* MissingRequired as it would be had Address not been required
MissingRequired_AddressOptional(df) ==
    SelectSeq(<<"Patient_Id", "Status">>, LAMBDA c : c \notin Range(SelectedFields(df)))

\* lines 349-358: the required fields that were not resolved
MissingRequired(df) ==
    SelectSeq(required_columns, LAMBDA c : c \notin Range(SelectedFields(df)))

\* lines 360-372: the columns once Name is there
WithNameFields(fields) ==
    IF "First_Name" \in Range(fields) /\ "Last_Name" \in Range(fields)
    THEN Append(SelectSeq(fields, LAMBDA c : c \notin {"First_Name", "Last_Name"}), "Name")
    ELSE Append(fields, "Name")

\* lines 390-420: Age, Address, City, State and Zip are added when missing
AppendMissing(fields, extra) ==
    fields \o SelectSeq(extra, LAMBDA c : c \notin Range(fields))

OutputFields(df) ==
    AppendMissing(WithNameFields(SelectedFields(df)),
                  <<"Age", "Address", "City", "State", "Zip">>)

\* First_Name + ' ' + Last_Name on one row; a missing part gives NaN
JoinName(first, last) ==
    IF first = NaN \/ last = NaN THEN NaN ELSE first \o <<" ">> \o last

\* lines 343-420 on one row of the sheet: the selected cells under their
\* canonical names, Name synthesized or the placeholder, Status as lowercase
\* text, Age in years, 'N/A' in the columns the sheet lacks
ShapeRow(df, r) ==
    LET sel == SelectedFields(df)
        src(field) == df.rows[r][df.cols[SourceColumn(df, field)]]
    IN [c \in Range(OutputFields(df)) |->
          CASE c = "Name" ->
                 IF "First_Name" \in Range(sel) /\ "Last_Name" \in Range(sel)
                 THEN JoinName(src("First_Name"), src("Last_Name"))
                 ELSE NameNotAvailable
            [] c = "Status" -> lower(astype_str(src("Status")))
            [] c = "Age" ->
                 IF "Age" \in Range(sel) THEN extract_year_from_age(src("Age"))
                 ELSE NotAvailable
            [] OTHER -> IF c \in Range(sel) THEN src(c) ELSE NotAvailable]

\* KeepRow as it would be had the status been compared before lowercasing
KeepRow_CaseSensitive(df, r) ==
    ContainsKeyword(astype_str(df.rows[r][df.cols[SourceColumn(df, "Status")]]))

\* lines 378-383: the row passes the status filter
KeepRow(df, r) == ContainsKeyword(ShapeRow(df, r)["Status"])

\* the shaped rows that pass the filter, in sheet order
RECURSIVE FilteredFrom(_, _)
FilteredFrom(df, r) ==
    IF r > Len(df.rows) THEN <<>>
    ELSE (IF KeepRow(df, r) THEN <<ShapeRow(df, r)>> ELSE <<>>) \o FilteredFrom(df, r + 1)

\* line 423: no 'N/A' in Address, City, State, Zip of the first row kept
address_cols_valid(rows) ==
    \A c \in {"Address", "City", "State", "Zip"} : rows[1][c] # NotAvailable

\* lines 427-449 on one shaped row
NormalizedRow(row) ==
    LET n == normalize_row(<<row["Address"], row["City"], row["State"], row["Zip"]>>)
    IN [row EXCEPT !["Address"] = n[1], !["City"] = n[2],
                   !["State"] = n[3], !["Zip"] = n[4]]

WithCasesSuffix == <<"_","W","i","t","h"," ","C","a","s","e","s">>
Unknown == <<"U","n","k","n","o","w","n">>

\* lines 264-275: office and discipline from the file name
ParseWorkbookName(file_basename) ==
    LET m == ParseOfficeDiscipline(file_basename, WithCasesSuffix)
    IN IF m.ok THEN m ELSE [ok |-> FALSE, office |-> Unknown, discipline |-> Unknown]

\* line 455
output_filename(file_basename) ==
    LET m == ParseWorkbookName(file_basename)
    IN m.office \o <<"_">> \o m.discipline \o ProcessedSuffix

None == [ok |-> FALSE, df |-> Table(<<>>, <<>>)]

\* process_excel_file on the content of one workbook: None, or the table it
\* writes and returns.  An unreadable workbook and a sheet none of whose rows
\* passes the filter (line 423 then indexes an empty column) raise, and the
\* handler of lines 464-468 returns None.
process_excel_file(file) ==
    IF ~file.readable THEN None
    ELSE LET df == file.df
         IN IF df_empty(df) THEN None
            ELSE IF SelectedFields(df) = <<>> THEN None
            ELSE IF MissingRequired(df) # <<>> THEN None
            ELSE LET rows == FilteredFrom(df, 1)
                 IN IF rows = <<>> THEN None
                    ELSE [ok |-> TRUE,
                          df |-> Table(OutputFields(df),
                                       IF address_cols_valid(rows)
                                       THEN [i \in DOMAIN rows |-> NormalizedRow(rows[i])]
                                       ELSE rows)]

----------------------------------------------------------------------------
(* process_full_active_cases_report: the patient-therapist index *)

\* lines 508-533: the three attempts, flattened in the order they are tried;
\* each pair is a header of the workbook and the name it is mapped to
column_mapping_attempts ==
    << <<<<"L","o","c","a","t","i","o","n">>, "Office">>,
       <<<<"P","a","t","i","e","n","t">>, "Patient_Name">>,
       <<<<"T","h","e","r","a","p","i","s","t">>, "Therapist">>,
       <<<<"D","i","s","c","i","p","l","i","n","e">>, "Discipline">>,
       <<<<"C","a","s","e">>, "Case_Id">>,
       <<<<"O","r","g","a","n","i","z","a","t","i","o","n">>, "Office">>,
       <<<<"P","a","t","i","e","n","t"," ","N","a","m","e">>, "Patient_Name">>,
       <<<<"T","h","e","r","a","p","i","s","t"," ","N","a","m","e">>, "Therapist">>,
       <<<<"D","i","s","c","i","p","l","i","n","e">>, "Discipline">>,
       <<<<"C","a","s","e"," ","I","D">>, "Case_Id">>,
       <<<<"O","f","f","i","c","e">>, "Office">>,
       <<<<"P","a","t","i","e","n","t">>, "Patient_Name">>,
       <<<<"N","a","m","e">>, "Patient_Name">>,
       <<<<"T","h","e","r","a","p","i","s","t">>, "Therapist">>,
       <<<<"P","r","o","v","i","d","e","r">>, "Therapist">> >>

\* the new names already given (mapped_columns.values())
MappedNames(mapped) == {mapped[i][2] : i \in DOMAIN mapped}

\* lines 535-540
RECURSIVE MapExact(_, _, _)
MapExact(mapped, attempts, df) ==
    IF attempts = <<>> THEN mapped
    ELSE LET a == Head(attempts)
         IN MapExact(IF a[1] \in Range(df.cols) /\ a[2] \notin MappedNames(mapped)
                     THEN Append(mapped, a) ELSE mapped,
                     Tail(attempts), df)

\* lines 545-554: one header of the workbook in the partial-match loop
MapPartialColumn(mapped, col) ==
    LET col_lower == lower(col)
        names == MappedNames(mapped)
    IN IF Contains(col_lower, <<"p","a","t","i","e","n","t">>) /\ "Patient_Name" \notin names
       THEN Append(mapped, <<col, "Patient_Name">>)
       ELSE IF Contains(col_lower, <<"t","h","e","r","a","p","i","s","t">>) /\ "Therapist" \notin names
       THEN Append(mapped, <<col, "Therapist">>)
       ELSE IF (Contains(col_lower, <<"l","o","c","a","t","i","o","n">>) \/ Contains(col_lower, <<"o","f","f","i","c","e">>))
               /\ "Office" \notin names
       THEN Append(mapped, <<col, "Office">>)
       ELSE IF Contains(col_lower, <<"d","i","s","c","i","p","l","i","n","e">>) /\ "Discipline" \notin names
       THEN Append(mapped, <<col, "Discipline">>)
       ELSE mapped

RECURSIVE MapPartial(_, _)
MapPartial(mapped, cols) ==
    IF cols = <<>> THEN mapped
    ELSE MapPartial(MapPartialColumn(mapped, Head(cols)), Tail(cols))

HasEssential(mapped) == {"Patient_Name", "Therapist"} \subseteq MappedNames(mapped)

\* lines 535-554: mapped_columns, as the pairs (header, new name) in order
mapped_columns(df) ==
    LET exact == MapExact(<<>>, column_mapping_attempts, df)
    IN IF HasEssential(exact) THEN exact ELSE MapPartial(exact, df.cols)

RECURSIVE SkipDigits(_, _)
SkipDigits(s, i) == IF i <= Len(s) /\ IsDigit(s[i]) THEN SkipDigits(s, i + 1) ELSE i

\* \d+\.?\d* matched at index i: the index after the match, 0 when no match
NumberEnd(s, i) ==
    IF i < 1 \/ i > Len(s) \/ ~IsDigit(s[i]) THEN 0
    ELSE LET a == SkipDigits(s, i)
         IN SkipDigits(s, IF a <= Len(s) /\ s[a] = "." THEN a + 1 ELSE a)

\* \s*Active\s*Cases matched at index i: the index after the match, 0 if none
ActiveCasesEnd(s, i) ==
    IF i < 1 \/ i > Len(s) + 1 THEN 0
    ELSE LET a == SkipSpaces(s, i)
             b == SkipSpaces(s, a + 6)
         IN IF OccursAt(s, <<"A","c","t","i","v","e">>, a) /\ OccursAt(s, <<"C","a","s","e","s">>, b) THEN b + 5 ELSE 0

\* \s*cases? matched at index i: the index after the match, 0 if none
CasesEnd(s, i) ==
    IF i < 1 \/ i > Len(s) + 1 THEN 0
    ELSE LET a == SkipSpaces(s, i)
         IN IF OccursAt(s, <<"c","a","s","e">>, a)
            THEN (IF a + 4 <= Len(s) /\ s[a + 4] = "s" THEN a + 5 ELSE a + 4)
            ELSE 0

\* the index after the match of caseload pattern k (lines 570-575) that
\* starts at index i, 0 when it does not match there; NumberAt is where its
\* group(1) starts
NumberAt(s, k, i) == IF k <= 2 THEN i + 1 ELSE i

CaseloadEnd(s, k, i) ==
    LET n == NumberEnd(s, NumberAt(s, k, i))
        e == IF n = 0 THEN 0
             ELSE IF k \in {1, 3} THEN ActiveCasesEnd(s, n) ELSE CasesEnd(s, n)
    IN IF e = 0 THEN 0
       ELSE IF k >= 3 THEN e
       ELSE IF s[i] = "(" /\ e <= Len(s) /\ s[e] = ")" THEN e + 1
       ELSE 0

\* Series.str.extract(pattern k, expand=False) on one value
ExtractCaseload(s, k) ==
    LET I == {i \in 1..Len(s) : CaseloadEnd(s, k, i) > 0}
    IN IF I = {} THEN NaN
       ELSE LET i == NumberAt(s, k, SetMin(I))
            IN SubSeq(s, i, NumberEnd(s, i) - 1)

\* re.sub(r'\s*\d+\.?\d*\s*cases?', '', s), from index i on
RECURSIVE RemoveCases(_, _)
RemoveCases(s, i) ==
    IF i > Len(s) THEN <<>>
    ELSE LET n == NumberEnd(s, SkipSpaces(s, i))
             e == IF n = 0 THEN 0 ELSE CasesEnd(s, n)
         IN IF e > 0 THEN RemoveCases(s, e)
            ELSE <<s[i]>> \o RemoveCases(s, i + 1)

\* lines 584-590: each pass of the loop assigns Therapist_Name from the
\* Therapist column again, so the value left is that of the last pattern
TherapistName(therapist) == strip(RemoveCases(astype_str(therapist), 1))

\* lines 577-581: the first pattern that extracts a caseload from some row,
\* the last pattern when none does
CaseloadPattern(therapists) ==
    LET K == {k \in 1..4 : \E i \in DOMAIN therapists :
                 ExtractCaseload(astype_str(therapists[i]), k) # NaN}
    IN IF K = {} THEN 4 ELSE SetMin(K)

\* lines 562-592: selected_df, with Therapist_Caseload and Therapist_Name
MapTable(df) ==
    LET mapped == mapped_columns(df)
        names == [i \in DOMAIN mapped |-> mapped[i][2]]
        header(n) == (CHOOSE m \in Range(mapped) : m[2] = n)[1]
        therapists == [r \in DOMAIN df.rows |-> df.rows[r][header("Therapist")]]
        k == CaseloadPattern(therapists)
    IN Table(names \o <<"Therapist_Caseload", "Therapist_Name">>,
             [r \in DOMAIN df.rows |->
                [c \in Range(names) \cup {"Therapist_Caseload", "Therapist_Name"} |->
                    CASE c = "Therapist_Caseload" ->
                           ExtractCaseload(astype_str(therapists[r]), k)
                      [] c = "Therapist_Name" -> TherapistName(therapists[r])
                      [] OTHER -> df.rows[r][header(c)]]])

\* a dict kept as its items in insertion order: d[key] = value
DictSet(d, key, value) ==
    LET I == {i \in DOMAIN d : d[i].key = key}
    IN IF I = {} THEN Append(d, [key |-> key, value |-> value])
       ELSE [d EXCEPT ![SetMin(I)].value = value]

DictHas(d, key) == \E i \in DOMAIN d : d[i].key = key
DictGet(d, key) == d[CHOOSE i \in DOMAIN d : d[i].key = key].value

\* lines 601-615: patient_therapist_map
RECURSIVE PatientTherapistMap(_, _)
PatientTherapistMap(d, rows) ==
    IF rows = <<>> THEN d
    ELSE LET row == Head(rows)
         IN PatientTherapistMap(
                IF notna(row["Patient_Name"]) /\ notna(row["Therapist_Name"])
                THEN DictSet(d, strip(str_of(row["Patient_Name"])),
                             [therapist |-> strip(str_of(row["Therapist_Name"])),
                              caseload |-> row["Therapist_Caseload"]])
                ELSE d,
                Tail(rows))

\* lines 618-625: therapist_caseload_map
RECURSIVE TherapistCaseloadMap(_, _)
TherapistCaseloadMap(d, rows) ==
    IF rows = <<>> THEN d
    ELSE LET row == Head(rows)
         IN TherapistCaseloadMap(
                IF notna(row["Therapist_Name"]) /\ notna(row["Therapist_Caseload"])
                THEN DictSet(d, strip(str_of(row["Therapist_Name"])),
                             row["Therapist_Caseload"])
                ELSE d,
                Tail(rows))

\* lines 483-560: the report can be read, is not empty and has the essential
\* columns
FullReportUsable(file) ==
    /\ file.readable
    /\ ~df_empty(file.df)
    /\ HasEssential(mapped_columns(file.df))

----------------------------------------------------------------------------
(* to_csv and read_csv: a CSV file is a table whose cells are text *)

FloatCell(text) == <<"float">> \o text

\* DataFrame.to_csv(index=False) on one cell: NaN is written as the empty field
to_csv_cell(v) == IF v = NaN THEN <<>> ELSE str_of(v)

to_csv(df) ==
    Table(df.cols, [r \in DOMAIN df.rows |->
                       [c \in Range(df.cols) |-> to_csv_cell(df.rows[r][c])]])

\* the fields pandas.read_csv reads as missing (of its default na_values,
\* those that the tables here can hold)
na_values == { <<>>, <<"N","/","A">>, <<"N","A">>, <<"n","a","n">>, <<"N","a","N">> }

IsIntLiteral(t) == t # <<>> /\ \A i \in DOMAIN t : IsDigit(t[i])

\* \d+\.\d+
IsDecimalLiteral(t) ==
    \E k \in 2..(Len(t) - 1) :
        /\ t[k] = "."
        /\ IsIntLiteral(SubSeq(t, 1, k - 1))
        /\ IsIntLiteral(SubSeq(t, k + 1, Len(t)))

IsNumberLiteral(t) == IsIntLiteral(t) \/ IsDecimalLiteral(t)

\* str(int(t)): no leading zeros
RECURSIVE IntText(_)
IntText(t) == IF Len(t) > 1 /\ t[1] = "0" THEN IntText(Tail(t)) ELSE t

RECURSIVE FractionText(_)
FractionText(t) ==
    IF Len(t) > 1 /\ t[Len(t)] = "0" THEN FractionText(SubSeq(t, 1, Len(t) - 1)) ELSE t

\* str(float(t)) of a number literal
FloatText(t) ==
    IF IsIntLiteral(t) THEN IntText(t) \o <<".", "0">>
    ELSE LET k == CHOOSE k \in DOMAIN t : t[k] = "."
         IN IntText(SubSeq(t, 1, k - 1)) \o <<".">> \o FractionText(SubSeq(t, k + 1, Len(t)))

\* the dtype read_csv infers for a column of fields: int64 when every field
\* is an integer, float64 when every field is a number or missing, else object
column_dtype(fields) ==
    IF \A t \in fields : IsIntLiteral(t) THEN "int64"
    ELSE IF \A t \in fields : t \in na_values \/ IsNumberLiteral(t) THEN "float64"
    ELSE "object"

read_csv_cell(t, dtype) ==
    IF t \in na_values THEN NaN
    ELSE IF dtype = "int64" THEN IntCell(IntText(t))
    ELSE IF dtype = "float64" THEN FloatCell(FloatText(t))
    ELSE t

\* pandas.read_csv on a CSV file
read_csv(csv) ==
    LET dtype(c) == column_dtype({csv.rows[r][c] : r \in DOMAIN csv.rows})
    IN Table(csv.cols, [r \in DOMAIN csv.rows |->
                           [c \in Range(csv.cols) |-> read_csv_cell(csv.rows[r][c], dtype(c))]])

----------------------------------------------------------------------------
(* enrich_patient_data_with_therapists *)

\* lines 689-692 and 698: the columns of the enriched table
EnrichedFields(df) ==
    AppendMissing(df.cols, <<"Therapist", "Therapist_Caseload">>)
    \o (IF "Name" \in Range(df.cols) /\ "Patient_Id" \in Range(df.cols)
        /\ "Enhanced_Description" \notin Range(df.cols)
        THEN <<"Enhanced_Description">> ELSE <<>>)

\* lines 698-701
EnhancedDescription(row) ==
    IF notna(row["Name"])
    THEN str_of(row["Name"]) \o <<" ", "(">> \o str_of(row["Patient_Id"]) \o <<")">>
    ELSE str_of(row["Patient_Id"])

\* a join that finds no patient in the index
NameInMap_Never(df, row, map) == FALSE

\* lines 707-710: patient_name in patient_therapist_map
NameInMap(df, row, map) ==
    "Name" \in Range(df.cols) /\ isinstance_str(row["Name"]) /\ DictHas(map, row["Name"])

\* lines 689-714 on one row of a processed table
EnrichRow(df, row, map) ==
    [c \in Range(EnrichedFields(df)) |->
        CASE c = "Enhanced_Description"
               /\ "Name" \in Range(df.cols) /\ "Patient_Id" \in Range(df.cols) ->
               EnhancedDescription(row)
          [] c = "Therapist" /\ NameInMap(df, row, map) -> DictGet(map, row["Name"]).therapist
          [] c = "Therapist_Caseload" /\ NameInMap(df, row, map) ->
               DictGet(map, row["Name"]).caseload
          [] OTHER -> IF c \in Range(df.cols) THEN row[c] ELSE <<>>]

\* lines 686, 702 and 714: made_changes
made_changes(df, map) ==
    \/ "Name" \in Range(df.cols) /\ "Patient_Id" \in Range(df.cols)
    \/ \E r \in DOMAIN df.rows : NameInMap(df, df.rows[r], map)

\* lines 674-719 on one *_Processed.csv: the file as it is left
EnrichFile(csv, map) ==
    LET df == read_csv(csv)
    IN IF df_empty(df) \/ ~made_changes(df, map) THEN csv
       ELSE to_csv(Table(EnrichedFields(df),
                         [r \in DOMAIN df.rows |-> EnrichRow(df, df.rows[r], map)]))

\* glob "*_Processed.csv"
IsProcessedCsv(name) ==
    Len(name) >= Len(ProcessedSuffix)
    /\ OccursAt(name, ProcessedSuffix, Len(name) - Len(ProcessedSuffix) + 1)

----------------------------------------------------------------------------
(* Each specification drives one part of the program; the variables of the
   other parts rest at these values. *)

IdleAge == age_str = <<>> /\ age_ret = <<>> /\ age_pc = "idle"
IdleAddr == addr_in = <<>> /\ addr_prev = <<>> /\ addr_row = <<>> /\ addr_passes = 0
IdleKml ==
    patient_dfs = <<>> /\ processed_patients = <<>> /\ placemarks = <<>> /\ kml_pc = "idle"
IdleMain ==
    /\ data_dir = <<>> /\ processed_dir = <<>> /\ pc = "idle"
    /\ success_count = 0 /\ total_files = 0 /\ has_full_report = FALSE
    /\ excel_files = <<>> /\ file_idx = 0 /\ processed_dfs = <<>>
    /\ summary = <<>> /\ run = 0 /\ first_out = <<>> /\ writes = <<>>
    /\ pickle_locked = {}
IdleSheet ==
    /\ need_staff_file = <<>> /\ patient_files = <<>> /\ sheet_values = <<>>
    /\ sheet_updates = {} /\ update_count = 0 /\ cmp_ret = "none"
    /\ cmp_api_error = FALSE /\ cmp_requests = {} /\ cmp_pc = "idle"

----------------------------------------------------------------------------
(* The specification of extract_year_from_age over bounded inputs *)

MaxAgeLen == 4
AgeAlphabet == {"9", "8", "y", " ", "m"}
Age98 == <<"9","8","y"," ","1","0","m"," ","1","7","d">>
AgeUnknown == <<"u","n","k","n","o","w","n">>
AgeInputs ==
    StringsUpTo(AgeAlphabet, MaxAgeLen) \cup {Age98, AgeUnknown, NaN, IntCell(<<"9","8">>)}

InitAge ==
    /\ age_str \in AgeInputs
    /\ age_ret = <<>>
    /\ age_pc = "call"
    /\ IdleAddr
    /\ IdleKml
    /\ IdleMain
    /\ IdleSheet

CallExtractYear ==
    /\ age_pc = "call"
    /\ age_ret' = extract_year_from_age(age_str)
    /\ age_pc' = "done"
    /\ UNCHANGED <<sheetVars, age_str, addrVars, kmlVars, mainVars>>

NextAge == CallExtractYear

SpecAge == InitAge /\ [][NextAge]_vars

----------------------------------------------------------------------------
(* The specification of the address normalizer: a row of a sheet is
   normalized, and its result normalized again. *)

MaxPieces == 4
MaxPasses == 2
AddrPieces == {<<"1"," ","M","a","i","n"," ","S","t">>,
               <<","," ">>,
               <<"A","p","t"," ","5">>,
               <<"B","o","s","t","o","n">>,
               <<"M","A"," ","0","2","1","3","4">>,
               <<" ","1","2","3","4","5">>}
MainStRow == << <<"1","2","3"," ","M","a","i","n"," ","S","t",","," ","S","p","r","i","n","g","f","i","e","l","d",","," ","I","L"," ","6","2","7","0","4">>,
               <<"O","l","d","t","o","w","n">>, <<"T","X">>, <<"0","0","0","0","0">> >>
MainStNormalized == << <<"1","2","3"," ","M","a","i","n"," ","S","t">>, <<"S","p","r","i","n","g","f","i","e","l","d">>, <<"I","L">>, <<"6","2","7","0","4">> >>
AddrInputs == {Concat(p) : p \in StringsUpTo(AddrPieces, MaxPieces)} \cup {NaN}
ZipInputs == {<<"0","0","0","0","0">>, <<"0","2","1","3","4">>}
\* the same row with the zip of the address in the Zip cell
MainStRowSameZip == <<MainStRow[1], MainStRow[2], MainStRow[3], MainStNormalized[4]>>
RowInputs ==
    {<<a, MainStRow[2], MainStRow[3], z>> : a \in AddrInputs, z \in ZipInputs}
        \cup {MainStRow, MainStRowSameZip}

InitAddr ==
    /\ addr_in \in RowInputs
    /\ addr_prev = addr_in
    /\ addr_row = addr_in
    /\ addr_passes = 0
    /\ IdleAge
    /\ IdleKml
    /\ IdleMain
    /\ IdleSheet

NormalizeRow ==
    /\ addr_passes < MaxPasses
    /\ addr_prev' = addr_row
    /\ addr_row' = normalize_row(addr_row)
    /\ addr_passes' = addr_passes + 1
    /\ UNCHANGED <<sheetVars, addr_in, ageVars, kmlVars, mainVars>>

NextAddr == NormalizeRow

SpecAddr == InitAddr /\ [][NextAddr]_vars

----------------------------------------------------------------------------
(* The specification of the merge: create_patient_pins_kml is given the
   tables of a processed directory, in the order the directory lists them. *)

MaxMergeSheets == 3

KmlCols == <<"Patient_Id", "Name", "Address", "City", "State", "Zip">>
KmlRow(id, zip) ==
    [c \in {KmlCols[i] : i \in DOMAIN KmlCols} |->
        CASE c = "Patient_Id" -> id
          [] c = "Name" -> <<"N">> \o id
          [] c = "Address" -> <<"1"," ","M","a","i","n"," ","S","t">>
          [] c = "City" -> <<"B","o","s","t","o","n">>
          [] c = "State" -> <<"M","A">>
          [] OTHER -> zip]
KmlTableInputs ==
    {Table(KmlCols, rows) : rows \in
        { <<>>,
          << KmlRow(<<"1">>, <<"0","2","1","3","4">>) >>,
          << KmlRow(<<"2">>, <<"0","2","1","3","4">>) >>,
          << KmlRow(<<"1">>, NaN) >>,
          << KmlRow(<<"1">>, <<"0","2","1","3","4">>), KmlRow(<<"2">>, <<"6","0","6","0","1">>) >> }}
KmlNameInputs == {<<"A","_","O","T","_","P","r","o","c","e","s","s","e","d",".","c","s","v">>,
                  <<"A","_","P","T","_","P","r","o","c","e","s","s","e","d",".","c","s","v">>,
                  <<"B","_","P","T","_","P","r","o","c","e","s","s","e","d",".","c","s","v">>,
                  <<"U","n","k","n","o","w","n","_","U","n","k","n","o","w","n","_","P","r","o","c","e","s","s","e","d",".","c","s","v">>}
\* the listings of a directory that holds at most MaxMergeSheets tables
PatientDfsInputs ==
    {dfs \in StringsUpTo(KmlNameInputs \X KmlTableInputs, MaxMergeSheets) :
        \A i, j \in DOMAIN dfs : i # j => dfs[i][1] # dfs[j][1]}

InitKml ==
    /\ patient_dfs \in PatientDfsInputs
    /\ processed_patients = <<>>
    /\ placemarks = <<>>
    /\ kml_pc = "call"
    /\ IdleAge
    /\ IdleAddr
    /\ IdleMain
    /\ IdleSheet

CreatePatientPins ==
    /\ kml_pc = "call"
    /\ processed_patients' = MergeAll(<<>>, patient_dfs)
    /\ placemarks' = Placemarks(processed_patients')
    /\ kml_pc' = "done"
    /\ UNCHANGED <<sheetVars, patient_dfs, ageVars, addrVars, mainVars>>

NextKml == CreatePatientPins

SpecKml == InitKml /\ [][NextKml]_vars

----------------------------------------------------------------------------
(* The specification of data_processor.main: runs of the pipeline over a
   directory of input files *)

MaxRuns == 2
MaxRows == 2

\* an optional file: <<>> when it does not exist, <<content>> when it does
Missing == <<>>
Exists(f) == f # <<>>

\* d[k] = v on a directory or a dict kept as a function
Put(d, k, v) == [n \in DOMAIN d \cup {k} |-> IF n = k THEN v ELSE d[n]]

ActiveTherapistsCsv == <<"A","c","t","i","v","e","T","h","e","r","a","p","i","s","t","s",".","c","s","v">>
NeedStaffCsv == <<"N","e","e","d","S","t","a","f","f",".","c","s","v">>
PatientTherapistMapCsv == <<"P","a","t","i","e","n","t","T","h","e","r","a","p","i","s","t","M","a","p",".","c","s","v">>
PatientTherapistMapPickle == <<"p","a","t","i","e","n","t","_","t","h","e","r","a","p","i","s","t","_","m","a","p",".","p","i","c","k","l","e">>
TherapistCaseloadMapPickle == <<"t","h","e","r","a","p","i","s","t","_","c","a","s","e","l","o","a","d","_","m","a","p",".","p","i","c","k","l","e">>

\* one entry of writes: the file and the step that wrote it
Written(file, by) == [file |-> file, by |-> by]

EmptyProcessedDir ==
    [ActiveTherapists |-> Missing, NeedStaff |-> Missing,
     PatientTherapistMap |-> Missing, patient_therapist_map |-> Missing,
     therapist_caseload_map |-> Missing, csvs |-> <<>>]

\* a column of an input sheet: its header and its cells, row by row
Column(h, cells) == [h |-> h, v |-> cells]

\* the sheet made of these columns, rows of them
SheetOf(columns, rows) ==
    Table([i \in DOMAIN columns |-> columns[i].h],
          [r \in 1..rows |->
              [h \in {columns[i].h : i \in DOMAIN columns} |->
                  (CHOOSE col \in Range(columns) : col.h = h).v[r]]])

FillerNames == << "F1", "F2", "F3", "F4", "F5", "F6", "F7", "F8", "F9", "F10", "F11", "F12", "F13", "F14", "F15", "F16", "F17", "F18", "F19", "F20", "F21", "F22" >>
Fillers(from, k) == [i \in 1..k |-> Column(FillerNames[from + i - 1], <<<<"x">>, <<"x">>>>)]

PidCol == Column("Patient Id", <<<<"P","1">>, <<"P","2">>>>)
FirstCol == Column("First Name", <<<<"A","n","n">>, <<"B","o","b">>>>)
LastCol == Column("Last Name", <<<<"L","e","e">>, <<"R","a","y">>>>)
AgeCol == Column("Age", <<<<"9","8","y"," ","1","0","m"," ","1","7","d">>, <<"7","y">>>>)
AddrPlainCol == Column("Address", <<<<"1"," ","M","a","i","n"," ","S","t">>, <<"2"," ","O","a","k"," ","A","v","e">>>>)
AddrKeywordCol == Column("Address", <<<<"1","2"," ","A","c","t","i","v","e"," ","W","a","y">>, <<"2"," ","O","a","k"," ","A","v","e">>>>)
CityCol == Column("City", <<<<"B","o","s","t","o","n">>, <<"S","a","l","e","m">>>>)
StateCol == Column("State", <<<<"M","A">>, <<"M","A">>>>)
ZipCol == Column("Zip", <<<<"0","2","1","3","4">>, IntCell(<<"1","9","7","0">>)>>)
StatusCol == Column("Status", <<<<"A","c","t","i","v","e">>, <<"D","i","s","c","h","a","r","g","e","d">>>>)
StatCol == Column("Stat", <<<<"A","c","t","i","v","e">>, <<"D","i","s","c","h","a","r","g","e","d">>>>)

\* the layouts of a two-row sheet: which of the known columns it has, and
\* where its status column is: absent, headed Status, under another header
\* last, under another header at position 21, or under another header with
\* an unrelated column at position 21
\* a column headed Status whose values differ from those of StatCol
StatusOtherCol == Column("Status", <<<<"D","i","s","c","h","a","r","g","e","d">>, <<"P","e","n","d","i","n","g">>>>)

StatusPlacements == {"absent", "named", "last", "at21", "wide", "both"}

LayoutSheet(pid, names, addr, optional, placement) ==
    LET base == pid \o names \o addr \o optional
        columns ==
            CASE placement = "absent" -> base \o Fillers(1, 1)
              [] placement = "named" -> base \o <<StatusCol>>
              [] placement = "last" -> base \o <<StatCol>>
              [] placement = "at21" ->
                   base \o Fillers(1, StatusIndex - Len(base)) \o <<StatCol>>
              [] placement = "wide" ->
                   base \o <<StatCol>> \o Fillers(1, StatusIndex - Len(base))
              [] placement = "both" ->
                   base \o <<StatusOtherCol>> \o Fillers(1, StatusIndex - Len(base) - 1)
                        \o <<StatCol>>
    IN SheetOf(columns, 2)

LayoutSheets ==
    {LayoutSheet(pid, names, addr, optional, placement) :
        pid \in {<<>>, <<PidCol>>},
        names \in {<<>>, <<FirstCol>>, <<FirstCol, LastCol>>},
        addr \in {<<>>, <<AddrPlainCol>>, <<AddrKeywordCol>>},
        optional \in {<<>>, <<CityCol, StateCol, ZipCol>>,
                      <<AgeCol, CityCol, StateCol, ZipCol>>},
        placement \in StatusPlacements}

\* the sheets of the standard nine columns, of one to MaxRows rows, that
\* differ in the status of each row
DigitSeq == <<"1","2","3","4","5","6","7","8","9">>
StatusInputs ==
    { <<"A","c","t","i","v","e">>, <<"A","C","T","I","V","E">>, <<"H","o","m","e"," ","C","a","r","e">>, <<"p","e","n","d","i","n","g">>, <<"D","i","s","c","h","a","r","g","e","d">>, <<"I","n","a","c","t","i","v","e">>, NaN }

StandardRow(i, status) ==
    [h \in {"Patient Id", "First Name", "Last Name", "Age", "Address", "City",
            "State", "Zip", "Status"} |->
        CASE h = "Patient Id" -> <<"P", DigitSeq[i]>>
          [] h = "First Name" -> <<"A","n","n">>
          [] h = "Last Name" -> <<"L", DigitSeq[i]>>
          [] h = "Age" -> <<"4","0","y">>
          [] h = "Address" -> <<DigitSeq[i]>> \o <<" ","M","a","i","n"," ","S","t">>
          [] h = "City" -> <<"B","o","s","t","o","n">>
          [] h = "State" -> <<"M","A">>
          [] h = "Zip" -> <<"0","2","1","3","4">>
          [] h = "Status" -> status]

StandardCols ==
    <<"Patient Id", "First Name", "Last Name", "Age", "Address", "City", "State",
      "Zip", "Status">>

StatusSheets ==
    {Table(StandardCols, [i \in 1..n |-> StandardRow(i, statuses[i])]) :
        n \in 1..MaxRows, statuses \in [1..MaxRows -> StatusInputs]}

\* the sheets of the standard nine columns and two active rows that differ
\* in the address and the city of each row: an address with or without a
\* ", City, ST 12345" tail, a city or an empty City cell
AddressRow(i, address, city) ==
    [StandardRow(i, <<"A","c","t","i","v","e">>) EXCEPT !["Address"] = address, !["City"] = city,
                                               !["State"] = MainStRow[3], !["Zip"] = MainStRow[4]]
AddressSheets ==
    {Table(StandardCols, [i \in 1..2 |-> AddressRow(i, cells[i][1], cells[i][2])]) :
        cells \in [1..2 -> {<<"1"," ","M","a","i","n"," ","S","t">>, MainStRow[1]} \X {MainStRow[2], NaN}]}

\* three small sheets for the directories of two workbooks
SheetAnn == SheetOf(<<PidCol, FirstCol, LastCol, AddrPlainCol, StatusCol>>, 1)
SheetBob ==
    SheetOf(<<Column("Patient Id", <<<<"P","2">>>>), Column("First Name", <<<<"B","o","b">>>>),
              Column("Last Name", <<<<"R","a","y">>>>), Column("Address", <<<<"2"," ","O","a","k"," ","A","v","e">>>>),
              Column("Status", <<<<"P","e","n","d","i","n","g">>>>)>>, 1)
SheetNoAddress == SheetOf(<<PidCol, FirstCol, LastCol, StatusCol>>, 1)

Workbook(df) == [readable |-> TRUE, df |-> df]
Unreadable == [readable |-> FALSE, df |-> Table(<<>>, <<>>)]

A_OT == <<"A","_","O","T","_","W","i","t","h"," ","C","a","s","e","s",".","x","l","s","x">>
A_OT_Copy == <<"A","_","O","T","_","W","i","t","h"," ","C","a","s","e","s"," ","(","1",")",".","x","l","s","x">>
B_PT == <<"B","_","P","T","_","W","i","t","h"," ","C","a","s","e","s",".","x","l","s","x">>
ReportName == <<"r","e","p","o","r","t",".","x","l","s","x">>
ExportName == <<"e","x","p","o","r","t",".","x","l","s","x">>
WorkbookNames == {A_OT, A_OT_Copy, B_PT, ReportName, ExportName}

\* Full_ActiveCasesReport.xlsx: a sheet with these two headers that names
\* the therapists of Ann Lee and Bob Ray
FullReport(patient_header, therapist_header) ==
    Workbook(Table(<<patient_header, therapist_header>>,
        << [h \in {patient_header, therapist_header} |->
               IF h = patient_header THEN <<"A","n","n"," ","L","e","e">> ELSE <<"T","o","m"," ","F","o","x"," ","(","1","9",".","0"," ","A","c","t","i","v","e"," ","C","a","s","e","s",")">>],
           [h \in {patient_header, therapist_header} |->
               IF h = patient_header THEN <<"B","o","b"," ","R","a","y">> ELSE <<"S","u","e"," ","K","i","m"," ","5"," ","c","a","s","e","s">>] >>))

\* a report that names Ann Lee in lowercase
FullReportLowercase ==
    Workbook(Table(<<<<"P","a","t","i","e","n","t">>, <<"T","h","e","r","a","p","i","s","t">>>>,
        << [h \in {<<"P","a","t","i","e","n","t">>, <<"T","h","e","r","a","p","i","s","t">>} |->
               IF h = <<"P","a","t","i","e","n","t">> THEN <<"a","n","n"," ","l","e","e">> ELSE <<"T","o","m"," ","F","o","x">>] >>))

FullReportInputs ==
    { Missing, <<FullReportLowercase>>, <<Unreadable>>, <<Workbook(Table(<<<<"P","a","t","i","e","n","t">>, <<"T","h","e","r","a","p","i","s","t">>>>, <<>>))>>,
      <<FullReport(<<"P","a","t","i","e","n","t">>, <<"T","h","e","r","a","p","i","s","t">>)>>, <<FullReport(<<"P","a","t","i","e","n","t"," ","N","a","m","e">>, <<"T","h","e","r","a","p","i","s","t"," ","N","a","m","e">>)>>,
      <<FullReport(<<"p","a","t","i","e","n","t"," ","f","u","l","l"," ","n","a","m","e">>, <<"a","s","s","i","g","n","e","d"," ","t","h","e","r","a","p","i","s","t">>)>>, <<FullReport(<<"M","e","m","b","e","r">>, <<"C","l","i","n","i","c","i","a","n">>)>> }

GoodFullReport == <<FullReport(<<"P","a","t","i","e","n","t">>, <<"T","h","e","r","a","p","i","s","t">>)>>

InputDir(active_therapists, need_staff, full, xlsx) ==
    [ActiveTherapists |-> active_therapists, NeedStaff |-> need_staff,
     full |-> full, xlsx |-> xlsx]

OneWorkbook(name, file) == [n \in {name} |-> file]
TwoWorkbooks(n1, f1, n2, f2) == [n \in {n1, n2} |-> IF n = n1 THEN f1 ELSE f2]

\* the directories a run starts from: one workbook of every layout and of
\* every status sheet beside the other inputs, two workbooks of the small
\* sheets under every pair of names, and one workbook beside every
\* combination of the other inputs, and a workbook that cannot be read
\* beside a good one
DataDirInputs ==
    {InputDir(<<"therapists">>, <<"need staff">>, GoodFullReport,
              OneWorkbook(A_OT, Workbook(df))) :
        df \in LayoutSheets \cup StatusSheets \cup AddressSheets}
    \cup
    {InputDir(<<"therapists">>, <<"need staff">>, GoodFullReport,
              TwoWorkbooks(ns[1], Workbook(d1), ns[2], Workbook(d2))) :
        ns \in {p \in WorkbookNames \X WorkbookNames : p[1] # p[2]},
        d1 \in {SheetAnn, SheetBob, SheetNoAddress},
        d2 \in {SheetAnn, SheetBob, SheetNoAddress}}
    \cup
    {InputDir(at, ns, full, OneWorkbook(A_OT, file)) :
        at \in {Missing, <<"therapists">>}, ns \in {Missing, <<"need staff">>},
        full \in FullReportInputs, file \in {Workbook(SheetAnn), Unreadable}}
    \cup
    {InputDir(<<"therapists">>, ns, GoodFullReport,
              TwoWorkbooks(A_OT, Unreadable, B_PT, Workbook(SheetAnn))) :
        ns \in {Missing, <<"need staff">>}}

\* the runs in which patient_therapist_map.pickle and
\* therapist_caseload_map.pickle cannot be written: any, for the directory
\* of one good workbook beside the other inputs
LockedRunsInputs(dir) ==
    IF dir = InputDir(<<"therapists">>, <<"need staff">>, GoodFullReport,
                      OneWorkbook(A_OT, Workbook(SheetAnn)))
    THEN SUBSET (1..MaxRuns)
    ELSE {{}}

\* PROCESSED_DIR with the table an earlier run shaped from A_OT, when the
\* workbook held the sheet SheetBob: the file line 459 wrote for it
LeftoverCsv ==
    Table(<<"Patient_Id", "Address", "Status", "Name", "Age", "City", "State", "Zip">>,
          << [Patient_Id |-> <<"P","2">>,
              Address |-> <<"2"," ","O","a","k"," ","A","v","e">>,
              Status |-> <<"p","e","n","d","i","n","g">>,
              Name |-> <<"B","o","b"," ","R","a","y">>,
              Age |-> NotAvailable, City |-> NotAvailable,
              State |-> NotAvailable, Zip |-> NotAvailable] >>)
LeftoverName ==
    <<"A","_","O","T","_","P","r","o","c","e","s","s","e","d",".","c","s","v">>
LeftoverDir == [EmptyProcessedDir EXCEPT !.csvs = Put(@, LeftoverName, LeftoverCsv)]

\* PROCESSED_DIR as the run finds it: empty, or, where A_OT can no longer be
\* read, as that earlier run left it
ProcessedDirInputs(dir) ==
    IF A_OT \in DOMAIN dir.xlsx /\ dir.xlsx[A_OT] = Unreadable /\ Exists(dir.NeedStaff)
    THEN {EmptyProcessedDir, LeftoverDir}
    ELSE {EmptyProcessedDir}

InitMain ==
    /\ data_dir \in DataDirInputs
    /\ pickle_locked \in LockedRunsInputs(data_dir)
    /\ processed_dir \in ProcessedDirInputs(data_dir)
    /\ pc = "start"
    /\ success_count = 0
    /\ total_files = 0
    /\ has_full_report = FALSE
    /\ excel_files = <<>>
    /\ file_idx = 0
    /\ processed_dfs = <<>>
    /\ summary = <<>>
    /\ run = 1
    /\ first_out = EmptyProcessedDir
    /\ writes = <<>>
    /\ IdleAge
    /\ IdleAddr
    /\ IdleKml
    /\ IdleSheet

\* main lines 748-751 with copy_active_therapists
CopyActiveTherapists ==
    /\ pc = "start"
    /\ processed_dir' = IF Exists(data_dir.ActiveTherapists)
                        THEN [processed_dir EXCEPT !.ActiveTherapists = data_dir.ActiveTherapists]
                        ELSE processed_dir
    /\ success_count' = IF Exists(data_dir.ActiveTherapists)
                        THEN success_count + 1 ELSE success_count
    /\ total_files' = IF Exists(data_dir.ActiveTherapists)
                      THEN total_files + 1 ELSE total_files
    /\ writes' = IF Exists(data_dir.ActiveTherapists)
                 THEN Append(writes, Written(ActiveTherapistsCsv, "copy")) ELSE writes
    /\ pc' = "need_staff"
    /\ UNCHANGED <<sheetVars, pickle_locked, data_dir, has_full_report, excel_files, file_idx, processed_dfs,
                   summary, run, first_out, ageVars, addrVars, kmlVars>>

\* main lines 753-756 with process_need_staff
ProcessNeedStaff ==
    /\ pc = "need_staff"
    /\ processed_dir' = IF Exists(data_dir.NeedStaff)
                        THEN [processed_dir EXCEPT !.NeedStaff = data_dir.NeedStaff]
                        ELSE processed_dir
    /\ success_count' = IF Exists(data_dir.NeedStaff)
                        THEN success_count + 1 ELSE success_count
    /\ total_files' = IF Exists(data_dir.NeedStaff)
                      THEN total_files + 1 ELSE total_files
    /\ writes' = IF Exists(data_dir.NeedStaff)
                 THEN Append(writes, Written(NeedStaffCsv, "copy")) ELSE writes
    /\ pc' = "full_report"
    /\ UNCHANGED <<sheetVars, pickle_locked, data_dir, has_full_report, excel_files, file_idx, processed_dfs,
                   summary, run, first_out, ageVars, addrVars, kmlVars>>

\* ProcessFullReport as it would be had has_full_report been set without
\* regard to the result of process_full_active_cases_report
ProcessFullReport_FlagAlways ==
    /\ pc = "full_report"
    /\ LET usable == Exists(data_dir.full) /\ FullReportUsable(data_dir.full[1])
       IN /\ processed_dir' =
                IF usable
                THEN LET selected_df == MapTable(data_dir.full[1].df)
                     IN IF run \in pickle_locked
                        THEN [processed_dir EXCEPT
                                !.PatientTherapistMap = <<to_csv(selected_df)>>]
                        ELSE [processed_dir EXCEPT
                                !.PatientTherapistMap = <<to_csv(selected_df)>>,
                                !.patient_therapist_map =
                                    <<PatientTherapistMap(<<>>, selected_df.rows)>>,
                                !.therapist_caseload_map =
                                    <<TherapistCaseloadMap(<<>>, selected_df.rows)>>]
                ELSE processed_dir
          /\ has_full_report' = TRUE
          /\ success_count' = IF usable THEN success_count + 1 ELSE success_count
          /\ writes' = IF ~usable THEN writes
                       ELSE IF run \in pickle_locked
                       THEN Append(writes, Written(PatientTherapistMapCsv, "index"))
                       ELSE writes \o <<Written(PatientTherapistMapCsv, "index"),
                                        Written(PatientTherapistMapPickle, "index"),
                                        Written(TherapistCaseloadMapPickle, "index")>>
    /\ total_files' = IF Exists(data_dir.full) THEN total_files + 1 ELSE total_files
    /\ pc' = "glob"
    /\ UNCHANGED <<sheetVars, pickle_locked, data_dir, excel_files, file_idx, processed_dfs, summary, run,
                   first_out, ageVars, addrVars, kmlVars>>

\* main lines 758-777 with process_full_active_cases_report; when the two
\* dictionaries cannot be pickled (lines 627-640) the error is logged and
\* True is returned all the same
ProcessFullReport ==
    /\ pc = "full_report"
    /\ LET usable == Exists(data_dir.full) /\ FullReportUsable(data_dir.full[1])
       IN /\ processed_dir' =
                IF usable
                THEN LET selected_df == MapTable(data_dir.full[1].df)
                     IN IF run \in pickle_locked
                        THEN [processed_dir EXCEPT
                                !.PatientTherapistMap = <<to_csv(selected_df)>>]
                        ELSE [processed_dir EXCEPT
                                !.PatientTherapistMap = <<to_csv(selected_df)>>,
                                !.patient_therapist_map =
                                    <<PatientTherapistMap(<<>>, selected_df.rows)>>,
                                !.therapist_caseload_map =
                                    <<TherapistCaseloadMap(<<>>, selected_df.rows)>>]
                ELSE processed_dir
          /\ has_full_report' = usable
          /\ success_count' = IF usable THEN success_count + 1 ELSE success_count
          /\ writes' = IF ~usable THEN writes
                       ELSE IF run \in pickle_locked
                       THEN Append(writes, Written(PatientTherapistMapCsv, "index"))
                       ELSE writes \o <<Written(PatientTherapistMapCsv, "index"),
                                        Written(PatientTherapistMapPickle, "index"),
                                        Written(TherapistCaseloadMapPickle, "index")>>
    /\ total_files' = IF Exists(data_dir.full) THEN total_files + 1 ELSE total_files
    /\ pc' = "glob"
    /\ UNCHANGED <<sheetVars, pickle_locked, data_dir, excel_files, file_idx, processed_dfs, summary, run,
                   first_out, ageVars, addrVars, kmlVars>>

\* the orders in which glob can list these names
Listings(names) ==
    {order \in [1..Cardinality(names) -> names] :
        \A i, j \in DOMAIN order : i # j => order[i] # order[j]}

\* main lines 779-789: glob lists the workbooks in an order of its own
GlobExcel ==
    /\ pc = "glob"
    /\ \E order \in Listings(DOMAIN data_dir.xlsx) : excel_files' = order
    /\ total_files' = total_files + Cardinality(DOMAIN data_dir.xlsx)
    /\ processed_dfs' = <<>>
    /\ file_idx' = 1
    /\ pc' = "sheets"
    /\ UNCHANGED <<sheetVars, pickle_locked, data_dir, processed_dir, success_count, has_full_report, summary,
                   run, first_out, writes, ageVars, addrVars, kmlVars>>

\* ProcessExcelFile as it would be had main ended at the first workbook
\* that process_excel_file returns None for
ProcessExcelFile_AbortOnFailure ==
    /\ pc = "sheets"
    /\ file_idx <= Len(excel_files)
    /\ LET file_path == excel_files[file_idx]
           processed_df == process_excel_file(data_dir.xlsx[file_path])
       IN /\ processed_dir' =
                IF processed_df.ok
                THEN [processed_dir EXCEPT
                        !.csvs = Put(@, output_filename(file_path), to_csv(processed_df.df))]
                ELSE processed_dir
          /\ processed_dfs' = IF processed_df.ok
                              THEN Append(processed_dfs, processed_df.df)
                              ELSE processed_dfs
          /\ success_count' = IF processed_df.ok THEN success_count + 1 ELSE success_count
          /\ writes' = IF processed_df.ok
                       THEN Append(writes, Written(output_filename(file_path), "shape"))
                       ELSE writes
          /\ pc' = IF processed_df.ok THEN pc ELSE "done"
    /\ file_idx' = file_idx + 1
    /\ UNCHANGED <<sheetVars, pickle_locked, data_dir, total_files, has_full_report, excel_files, summary,
                   run, first_out, ageVars, addrVars, kmlVars>>

\* main lines 791-806: one pass of the loop, with process_excel_file
ProcessExcelFile ==
    /\ pc = "sheets"
    /\ file_idx <= Len(excel_files)
    /\ LET file_path == excel_files[file_idx]
           processed_df == process_excel_file(data_dir.xlsx[file_path])
       IN /\ processed_dir' =
                IF processed_df.ok
                THEN [processed_dir EXCEPT
                        !.csvs = Put(@, output_filename(file_path), to_csv(processed_df.df))]
                ELSE processed_dir
          /\ processed_dfs' = IF processed_df.ok
                              THEN Append(processed_dfs, processed_df.df)
                              ELSE processed_dfs
          /\ success_count' = IF processed_df.ok THEN success_count + 1 ELSE success_count
          /\ writes' = IF processed_df.ok
                       THEN Append(writes, Written(output_filename(file_path), "shape"))
                       ELSE writes
    /\ file_idx' = file_idx + 1
    /\ UNCHANGED <<sheetVars, pickle_locked, data_dir, pc, total_files, has_full_report, excel_files, summary,
                   run, first_out, ageVars, addrVars, kmlVars>>

\* the *_Processed.csv files the join pass rewrites: those it changes
\* (lines 686-717)
EnrichedFiles(dir) ==
    IF Exists(dir.patient_therapist_map)
    THEN {n \in DOMAIN dir.csvs :
            /\ IsProcessedCsv(n)
            /\ ~df_empty(read_csv(dir.csvs[n]))
            /\ made_changes(read_csv(dir.csvs[n]), dir.patient_therapist_map[1])}
    ELSE {}

\* a join that saves every table it changes twice
JoinWrites_Twice(order) ==
    [i \in 1..(2 * Len(order)) |-> Written(order[(i + 1) \div 2], "enrich")]

\* lines 716-719: the join saves each table it changed, once, in the order
\* it takes the files
JoinWrites(order) == [i \in DOMAIN order |-> Written(order[i], "enrich")]

\* the join started while workbooks are still to be shaped
Enrich_Early ==
    /\ pc = "sheets"
    /\ file_idx >= 1
    /\ processed_dir' =
          IF has_full_report /\ Exists(processed_dir.patient_therapist_map)
          THEN [processed_dir EXCEPT
                  !.csvs = [n \in DOMAIN @ |->
                              IF IsProcessedCsv(n)
                              THEN EnrichFile(@[n], processed_dir.patient_therapist_map[1])
                              ELSE @[n]]]
          ELSE processed_dir
    /\ \E order \in Listings(IF has_full_report THEN EnrichedFiles(processed_dir) ELSE {}) :
          writes' = writes \o JoinWrites(order)
    /\ pc' = "summary"
    /\ UNCHANGED <<sheetVars, pickle_locked, data_dir, success_count, total_files, has_full_report, excel_files,
                   file_idx, processed_dfs, summary, run, first_out,
                   ageVars, addrVars, kmlVars>>

\* main lines 808-820 with enrich_patient_data_with_therapists, which takes
\* the files in the order glob lists them
Enrich ==
    /\ pc = "sheets"
    /\ file_idx > Len(excel_files)
    /\ processed_dir' =
          IF has_full_report /\ Exists(processed_dir.patient_therapist_map)
          THEN [processed_dir EXCEPT
                  !.csvs = [n \in DOMAIN @ |->
                              IF IsProcessedCsv(n)
                              THEN EnrichFile(@[n], processed_dir.patient_therapist_map[1])
                              ELSE @[n]]]
          ELSE processed_dir
    /\ \E order \in Listings(IF has_full_report THEN EnrichedFiles(processed_dir) ELSE {}) :
          writes' = writes \o JoinWrites(order)
    /\ pc' = "summary"
    /\ UNCHANGED <<sheetVars, pickle_locked, data_dir, success_count, total_files, has_full_report, excel_files,
                   file_idx, processed_dfs, summary, run, first_out,
                   ageVars, addrVars, kmlVars>>

\* main lines 822-832: the closing line with the counts
Summary ==
    /\ pc = "summary"
    /\ summary' = <<success_count, total_files>>
    /\ pc' = "done"
    /\ UNCHANGED <<sheetVars, pickle_locked, data_dir, processed_dir, success_count, total_files, has_full_report,
                   excel_files, file_idx, processed_dfs, run, first_out, writes,
                   ageVars, addrVars, kmlVars>>

\* kml_generator.main lines 598-616, run once data_processor.main is over:
\* the *_Processed.csv files are read in the order glob lists them and
\* given to create_patient_pins_kml
KmlMain ==
    /\ pc = "done"
    /\ kml_pc = "idle"
    /\ \E order \in Listings({n \in DOMAIN processed_dir.csvs : IsProcessedCsv(n)}) :
          patient_dfs' = [i \in DOMAIN order |->
                             <<order[i], read_csv(processed_dir.csvs[order[i]])>>]
    /\ processed_patients' = MergeAll(<<>>, patient_dfs')
    /\ placemarks' = Placemarks(processed_patients')
    /\ kml_pc' = "done"
    /\ UNCHANGED <<sheetVars, mainVars, ageVars, addrVars>>

\* the scripts are run again on the same DATA_DIR; PROCESSED_DIR is as the
\* run before left it (main lines 745-747 reset the counts)
RunAgain ==
    /\ pc = "done"
    /\ kml_pc = "done"
    /\ run < MaxRuns
    /\ run' = run + 1
    /\ first_out' = IF run = 1 THEN processed_dir ELSE first_out
    /\ pc' = "start"
    /\ success_count' = 0
    /\ total_files' = 0
    /\ has_full_report' = FALSE
    /\ excel_files' = <<>>
    /\ file_idx' = 0
    /\ processed_dfs' = <<>>
    /\ summary' = <<>>
    /\ writes' = <<>>
    /\ patient_dfs' = <<>>
    /\ processed_patients' = <<>>
    /\ placemarks' = <<>>
    /\ kml_pc' = "idle"
    /\ UNCHANGED <<sheetVars, pickle_locked, data_dir, processed_dir, ageVars, addrVars>>

NextMain ==
    \/ CopyActiveTherapists
    \/ ProcessNeedStaff
    \/ ProcessFullReport
    \/ GlobExcel
    \/ ProcessExcelFile
    \/ Enrich
    \/ Summary
    \/ KmlMain
    \/ RunAgain

SpecMain == InitMain /\ [][NextMain]_vars

----------------------------------------------------------------------------
(* comparator.py: compare_staff_data marks the rows of the Need Staff
   worksheet whose identifier is also the identifier of an active patient *)

\* line 251: the text written into the worksheet
AlreadyStaffed == "Already Staffed"
\* line 250: the column of every range written
MarkColumn == "I"
\* line 260
batch_size == 10

\* a column of a table, top to bottom
ColumnCells(df, c) == [r \in DOMAIN df.rows |-> df.rows[r][c]]

\* lines 182-190: a column of pd.concat of the tables read from the files;
\* when no column is of dtype object and one is float64, the integers of the
\* other columns become floats
ConcatColumn(csvs, c) ==
    LET nonempty == SelectSeq(csvs, LAMBDA f : f.rows # <<>>)
        dtypes == {column_dtype({f.rows[r][c] : r \in DOMAIN f.rows}) : f \in Range(nonempty)}
        cells == Concat([i \in DOMAIN nonempty |-> ColumnCells(read_csv(nonempty[i]), c)])
    IN IF "object" \notin dtypes /\ "float64" \in dtypes
       THEN [i \in DOMAIN cells |->
                IF cells[i][1] = "int" THEN FloatCell(FloatText(Tail(cells[i])))
                ELSE cells[i]]
       ELSE cells

\* line 319
need_staff_ids(csv) == {astype_str(v) : v \in Range(ColumnCells(read_csv(csv), "ID"))}
\* line 320
active_cases_ids(csvs) == {astype_str(v) : v \in Range(ConcatColumn(csvs, "Patient_Id"))}
\* line 323
Matches(csv, csvs) == need_staff_ids(csv) \cap active_cases_ids(csvs)

\* lines 239-255: the updates prepared, one for each row below the header
\* whose first cell, stripped, is one of the matches
batch_updates(values, matches) ==
    LET rows == SelectSeq([i \in 1..Len(values) |-> i],
                          LAMBDA i : /\ i > 1
                                     /\ Len(values[i]) > 0
                                     /\ strip(values[i][1]) \in matches)
    IN [k \in DOMAIN rows |->
           [range |-> [col |-> MarkColumn, row |-> rows[k]], values |-> AlreadyStaffed]]

\* lines 261-262: the batch an update is sent in, and the number of batches
BatchOf(k) == (k - 1) \div batch_size + 1
NumBatches(n) == (n + batch_size - 1) \div batch_size

\* lines 261-287: the updates the worksheet accepts. A batch is accepted
\* whole ("ok"), or refused with an HttpError, after which its updates are
\* sent one by one and those of `single` are accepted, or it raises another
\* exception, which ends update_google_sheet.
Aborted(fate) == \E b \in DOMAIN fate : fate[b] = "Exception"
Accepted(updates, fate, single) ==
    {updates[k] : k \in {k \in DOMAIN updates :
        /\ \A b \in 1..BatchOf(k) : fate[b] # "Exception"
        /\ fate[BatchOf(k)] = "ok" \/ k \in single}}

\* lines 261-287: the requests sent. The batches are sent in order until one
\* raises an exception that is not an HttpError; the updates of a batch
\* refused with an HttpError are each sent in a request of their own.
Sent(fate, b) == b \in DOMAIN fate /\ \A a \in 1..(b - 1) : fate[a] # "Exception"
Requests(updates, fate, single) ==
    {[kind |-> "batchUpdate", batch |-> b, update |-> 0, outcome |-> fate[b]] :
        b \in {b \in DOMAIN fate : Sent(fate, b)}}
    \cup
    {[kind |-> "update", batch |-> BatchOf(k), update |-> k,
      outcome |-> IF k \in single THEN "ok" ELSE "Exception"] :
        k \in {k \in DOMAIN updates :
                  Sent(fate, BatchOf(k)) /\ fate[BatchOf(k)] = "HttpError"}}

\* lines 303-347, with update_google_sheet (lines 200-301) for the matches
CompareStaffData ==
    /\ cmp_pc = "call"
    /\ cmp_pc' = "done"
    /\ IF ~Exists(need_staff_file) \/ patient_files = <<>>
       THEN /\ cmp_ret' = FALSE
            /\ UNCHANGED <<sheet_updates, update_count, cmp_api_error, cmp_requests>>
       ELSE LET matches == Matches(need_staff_file[1], patient_files)
                updates == batch_updates(sheet_values, matches)
            IN IF matches = {}
               THEN /\ cmp_ret' = TRUE
                    /\ UNCHANGED <<sheet_updates, update_count, cmp_api_error, cmp_requests>>
               ELSE \E creds, got \in BOOLEAN :
                    IF ~creds \/ ~got
                    THEN /\ cmp_ret' = FALSE
                         /\ cmp_api_error' = TRUE
                         /\ UNCHANGED <<sheet_updates, update_count, cmp_requests>>
                    ELSE IF sheet_values = <<>>
                    THEN /\ cmp_ret' = FALSE
                         /\ UNCHANGED <<sheet_updates, update_count, cmp_api_error, cmp_requests>>
                    ELSE \E fate \in [1..NumBatches(Len(updates)) -> {"ok", "HttpError", "Exception"}],
                            single \in SUBSET DOMAIN updates :
                         /\ \A k \in single : fate[BatchOf(k)] = "HttpError"
                         /\ sheet_updates' = sheet_updates \cup Accepted(updates, fate, single)
                         /\ cmp_requests' = Requests(updates, fate, single)
                         /\ update_count' = IF Aborted(fate) THEN 0 ELSE Len(updates)
                         /\ cmp_ret' = (update_count' > 0)
                         /\ cmp_api_error' =
                                \E b \in DOMAIN fate : fate[b] # "ok"
    /\ UNCHANGED <<need_staff_file, patient_files, sheet_values, ageVars, addrVars, kmlVars,
                   mainVars>>

MaxSheetRows == 2

Id123 == <<"1","2","3">>
Id00123 == <<"0","0","1","2","3">>
IdA7 == <<"A","7">>
IdBlank == <<>>
NoteCell == <<"x">>

\* NeedStaff.csv with the given ID fields
NeedStaffTable(ids) ==
    Table(<<"ID", "Notes">>,
          [r \in DOMAIN ids |-> [c \in {"ID", "Notes"} |-> IF c = "ID" THEN ids[r] ELSE NoteCell]])
\* a *_Processed.csv with the given Patient_Id fields
ProcessedTable(ids) ==
    Table(<<"Patient_Id", "Status">>,
          [r \in DOMAIN ids |->
              [c \in {"Patient_Id", "Status"} |-> IF c = "Patient_Id" THEN ids[r] ELSE <<"a","c","t","i","v","e">>]])

NeedStaffInputs ==
    {Missing} \cup
    {<<NeedStaffTable(ids)>> : ids \in {<<>>, <<Id123>>, <<Id00123>>, <<IdA7, Id123>>,
                                       <<Id123, IdBlank>>}}
PatientFilesInputs ==
    {[i \in DOMAIN fs |-> ProcessedTable(fs[i])] : fs \in
        {<<>>, << <<Id123>> >>, << <<Id00123>> >>, << <<Id123, IdBlank>> >>, << <<IdA7>> >>,
         << <<Id123>>, <<IdA7>> >>, << <<Id123>>, <<IdBlank>> >>, << <<>>, <<Id123>> >>,
         << <<IdA7, Id123>> >>}}

SheetHeader == <<<<"I","D">>, <<"P","a","t","i","e","n","t">>>>
SheetRowInputs == {<<Id123, NoteCell>>, <<Id00123>>, <<<<" ","1","2","3">>, NoteCell>>, <<IdA7, NoteCell>>,
                   <<>>, <<<<"4","5","6">>>>}
\* a worksheet of more rows than one batch holds
LongSheet == <<SheetHeader>> \o [i \in 1..(batch_size + 1) |-> <<Id123, NoteCell>>]
SheetValuesInputs ==
    {<<>>} \cup {<<SheetHeader>> \o rows : rows \in StringsUpTo(SheetRowInputs, MaxSheetRows)}

InitSheet ==
    /\ \/ /\ need_staff_file \in NeedStaffInputs
          /\ patient_files \in PatientFilesInputs
          /\ sheet_values \in SheetValuesInputs
       \/ /\ need_staff_file = <<NeedStaffTable(<<Id123>>)>>
          /\ patient_files = <<ProcessedTable(<<Id123>>)>>
          /\ sheet_values = LongSheet
    /\ sheet_updates = {}
    /\ update_count = 0
    /\ cmp_ret = "none"
    /\ cmp_api_error = FALSE
    /\ cmp_requests = {}
    /\ cmp_pc = "call"
    /\ IdleAge
    /\ IdleAddr
    /\ IdleKml
    /\ IdleMain

NextSheet == CompareStaffData

SpecSheet == InitSheet /\ [][NextSheet]_vars

----------------------------------------------------------------------------
(* Claims about the address normalizer (SpecAddr) *)

\* C2: address normalization is idempotent: normalizing the result of a
\* normalization returns the same <<address, city, state, zip>>.
C2_Idempotent == addr_passes >= 2 => addr_row = addr_prev

\* C3: "123 Main St, Springfield, IL 62704" with city "Oldtown", state "TX"
\* and zip "00000" normalizes to "123 Main St", "Springfield", "IL", "62704".
C3_EmbeddedWins ==
    (addr_in = MainStRow /\ addr_passes = 1) => addr_row = MainStNormalized

C3_Witness ==
    /\ addr_in = MainStRow
    /\ addr_passes = 1
    /\ addr_row[2] # addr_in[2]

\* the address ends with ", City, ST 12345": a comma and a space, a city
\* without a comma that starts at index c, a comma and a space, two capital
\* letters, a space and five digits
TailAt(a, c) ==
    LET n == Len(a)
    IN /\ c >= 3 /\ c <= n - 10
       /\ a[c - 2] = "," /\ a[c - 1] = " "
       /\ \A i \in c..(n - 10) : a[i] # ","
       /\ a[c] # " "
       /\ a[n - 9] = "," /\ a[n - 8] = " "
       /\ IsUpper(a[n - 7]) /\ IsUpper(a[n - 6])
       /\ a[n - 5] = " "
       /\ \A i \in (n - 4)..n : IsDigit(a[i])
HasTail(a) == isinstance_str(a) /\ \E c \in 1..Len(a) : TailAt(a, c)
TailCity(a) == LET c == CHOOSE c \in 1..Len(a) : TailAt(a, c) IN SubSeq(a, c, Len(a) - 10)
TailState(a) == SubSeq(a, Len(a) - 7, Len(a) - 6)

\* C19: whenever the address ends with a ", City, ST 12345" tail, the
\* normalized city and state are those of the tail, whatever the supplied
\* city, state and zip are.
C19_TailCityState ==
    (addr_passes = 1 /\ HasTail(addr_in[1]))
        => addr_row[2] = TailCity(addr_in[1]) /\ addr_row[3] = TailState(addr_in[1])

\* the same for the rows whose supplied zip is not the zip of the tail
C19_TailCityStateOtherZip ==
    (addr_passes = 1 /\ HasTail(addr_in[1])
        /\ addr_in[4] # SubSeq(addr_in[1], Len(addr_in[1]) - 4, Len(addr_in[1])))
        => addr_row[2] = TailCity(addr_in[1]) /\ addr_row[3] = TailState(addr_in[1])

----------------------------------------------------------------------------
(* Claims about extract_year_from_age (SpecAge) *)

\* the indices of the 'y' characters that directly follow a digit
YearMarkers(s) == {p \in 2..Len(s) : s[p] = "y" /\ IsDigit(s[p - 1])}

\* the integer written directly before index p: the whole run of digits
IntegerBefore(s, p) ==
    SubSeq(s, SetMin({i \in 1..(p - 1) : \A k \in i..(p - 1) : IsDigit(s[k])}), p - 1)

\* C8: extract_year_from_age returns "<n>y", n the integer that precedes the
\* 'y' marker of the age string ("98y 10m 17d" gives "98y"), and returns its
\* input unchanged for a string without such a marker ("unknown") and for a
\* value that is no string.
C8_ExtractYear ==
    age_pc = "done" =>
        /\ IF isinstance_str(age_str) /\ YearMarkers(age_str) # {}
           THEN age_ret = IntegerBefore(age_str, SetMin(YearMarkers(age_str))) \o <<"y">>
           ELSE age_ret = age_str
        /\ (age_str = Age98 => age_ret = <<"9","8","y">>)
        /\ (age_str = AgeUnknown => age_ret = AgeUnknown)

C8_Witness == age_pc = "done" /\ age_str = Age98 /\ age_ret = <<"9","8","y">>

----------------------------------------------------------------------------
(* Claims about the merge (SpecKml) *)

\* the patient ids, as text, of the rows of a table
IdsIn(df) == {str_of(df.rows[i]["Patient_Id"]) : i \in DOMAIN df.rows}

\* the given sheets that hold patient id
SheetsWith(id) == {k \in DOMAIN patient_dfs : id \in IdsIn(patient_dfs[k][2])}

\* the given sheets named <office>_OT_Processed.csv or <office>_PT_Processed.csv
NamedSheets == {k \in DOMAIN patient_dfs : ParseProcessedName(patient_dfs[k][1]).ok}

SheetDiscipline(k) == ParseProcessedName(patient_dfs[k][1]).discipline

EntriesFor(id) == {i \in DOMAIN processed_patients : processed_patients[i].id = id}

PinsFor(id) == {j \in DOMAIN placemarks : placemarks[j].name = id}

InBoth(id) ==
    /\ \E k \in SheetsWith(id) \cap NamedSheets : SheetDiscipline(k) = <<"O","T">>
    /\ \E k \in SheetsWith(id) \cap NamedSheets : SheetDiscipline(k) = <<"P","T">>

C5_WitnessOtFirst ==
    /\ kml_pc = "done"
    /\ Len(patient_dfs) = 2
    /\ SheetDiscipline(1) = <<"O","T">>
    /\ SheetDiscipline(2) = <<"P","T">>
    /\ \E j \in DOMAIN placemarks :
          InBoth(placemarks[j].name) /\ placemarks[j].Discipline = PTandOT

\* the rows of sheet k that hold patient id
RowsOf(k, id) ==
    {r \in DOMAIN patient_dfs[k][2].rows : str_of(patient_dfs[k][2].rows[r]["Patient_Id"]) = id}

\* the first and the last record for the id among the sheets that are merged,
\* in the order of the merge
FirstRecord(id) ==
    LET k == SetMin(SheetsWith(id) \cap NamedSheets)
    IN [row |-> patient_dfs[k][2].rows[SetMin(RowsOf(k, id))],
        org |-> ParseProcessedName(patient_dfs[k][1]).office]

LastRecord(id) ==
    LET k == SetMax(SheetsWith(id) \cap NamedSheets)
    IN [row |-> patient_dfs[k][2].rows[SetMax(RowsOf(k, id))],
        org |-> ParseProcessedName(patient_dfs[k][1]).office]

----------------------------------------------------------------------------
(* Claims about the column resolver, the shaper and the driver (SpecMain) *)

\* the workbooks of DATA_DIR that process_excel_file has been called on in
\* this run
Attempted ==
    {n \in DOMAIN data_dir.xlsx :
        \E i \in DOMAIN excel_files : i < file_idx /\ excel_files[i] = n}

\* the workbooks among them whose sheet was read and is not empty
ResolvedSheets ==
    {n \in Attempted : data_dir.xlsx[n].readable /\ ~df_empty(data_dir.xlsx[n].df)}

\* DATA_DIR holds this one workbook only, and the loop of main has been
\* through it
OnlyWorkbookDone(n) == DOMAIN data_dir.xlsx = {n} /\ n \in ResolvedSheets

\* C1: after column resolution no source column of a sheet is bound to two
\* different canonical fields; the column a fallback tier binds to Status is
\* never one that is bound by name to another field.
C1_NoSharedColumn ==
    \A n \in ResolvedSheets :
        LET df == data_dir.xlsx[n].df
        IN \A f, g \in Range(SelectedFields(df)) :
              f # g => SourceColumn(df, f) # SourceColumn(df, g)

\* the required canonical fields that column resolution left without a column
Unresolved(df) ==
    {c \in {"Patient_Id", "Address", "Status"} : c \notin Range(SelectedFields(df))}

\* the Patient Ids of the rows of the table returned for the only workbook
KeptIds ==
    IF processed_dfs = <<>> THEN {}
    ELSE {processed_dfs[1].rows[r]["Patient_Id"] : r \in DOMAIN processed_dfs[1].rows}

\* the status, lowercased, contains one of the allow-list substrings
AllowListed(status) ==
    \E kw \in {KwActive, KwHomeCare, KwPending} : Contains(lower(astype_str(status)), kw)

RetainedStatuses == { <<"A","c","t","i","v","e">>, <<"A","C","T","I","V","E">>, <<"H","o","m","e"," ","C","a","r","e">>, <<"H","O","M","E"," ","C","A","R","E">>, <<"P","e","n","d","i","n","g">>, <<"p","e","n","d","i","n","g">> }
Discharged == <<"D","i","s","c","h","a","r","g","e","d">>

\* C6: a row is kept by the shaper if and only if its status, lowercased,
\* contains 'active', 'home care' or 'pending'; a row with status
\* "Discharged" is excluded and rows with status "Active", "Home Care" or
\* "Pending" in any letter case are retained.
C6_StatusFilter ==
    \A n \in DOMAIN data_dir.xlsx :
        LET df == data_dir.xlsx[n].df
        IN (OnlyWorkbookDone(n) /\ {"Patient Id", "Address", "Status"} \subseteq Range(df.cols))
           => \A r \in DOMAIN df.rows :
                 LET status == df.rows[r]["Status"]
                     kept == df.rows[r]["Patient Id"] \in KeptIds
                 IN /\ kept <=> AllowListed(status)
                    /\ status = Discharged => ~kept
                    /\ status \in RetainedStatuses => kept

\* a sheet of two rows of which the shaper kept the one with status
\* "Home Care" and dropped the one with status "Discharged"
C6_Witness ==
    /\ pc = "done"
    /\ OnlyWorkbookDone(A_OT)
    /\ LET df == data_dir.xlsx[A_OT].df
       IN /\ df.cols = StandardCols
          /\ Len(df.rows) = 2
          /\ df.rows[1]["Status"] = Discharged
          /\ df.rows[2]["Status"] = <<"H","o","m","e"," ","C","a","r","e">>
    /\ KeptIds = { <<"P", "2">> }

\* the sheet has no column headed Status and some column of it holds an
\* 'active', 'home care' or 'pending' string
StatusOnlyByContent(df) ==
    /\ "Status" \notin Range(df.cols)
    /\ \E i \in DOMAIN df.cols : \E r \in DOMAIN df.rows :
          AllowListed(df.rows[r][df.cols[i]])

\* C7: for a sheet with no column headed Status but with a column whose
\* values include an 'active'/'home care'/'pending' string, Status is bound
\* by the position or the content tier to a column that holds such a string,
\* and the sheet is not rejected for a missing Status: when Patient_Id and
\* Address are resolved too, a table is returned for it.
C7_FallbackBinds ==
    \A n \in ResolvedSheets :
        LET df == data_dir.xlsx[n].df
            bound == StatusBinding(df)
        IN StatusOnlyByContent(df)
           => /\ bound.tier \in {"position", "content"}
              /\ \E r \in DOMAIN df.rows : AllowListed(df.rows[r][df.cols[bound.col]])
              /\ "Status" \notin Unresolved(df)
              /\ (OnlyWorkbookDone(n) /\ Unresolved(df) = {}) => processed_dfs # <<>>

\* a sheet whose status column is headed Stat and stands at position 21 has
\* been shaped: Status was bound by position and a table was returned
C7_Witness ==
    /\ pc = "done"
    /\ OnlyWorkbookDone(A_OT)
    /\ LET df == data_dir.xlsx[A_OT].df
       IN /\ StatusOnlyByContent(df)
          /\ StatusBinding(df).tier = "position"
          /\ df.cols[StatusBinding(df).col] = "Stat"
    /\ processed_dfs # <<>>

\* C9: two runs of the pipeline on identical input files leave identical
\* output files, whatever the order in which the file system lists them.
C9_SameOutput == (run = 2 /\ pc = "done") => processed_dir = first_out

\* C10: when Patient_Id, Address or Status is unresolved for a sheet,
\* process_excel_file returns no table for it, no file of PROCESSED_DIR is
\* written and the driver does not count the sheet as a success.
C10_RequiredOrFail ==
    [][ (/\ pc = "sheets"
         /\ file_idx <= Len(excel_files)
         /\ data_dir.xlsx[excel_files[file_idx]].readable
         /\ ~df_empty(data_dir.xlsx[excel_files[file_idx]].df)
         /\ Unresolved(data_dir.xlsx[excel_files[file_idx]].df) # {})
        => /\ ~process_excel_file(data_dir.xlsx[excel_files[file_idx]]).ok
           /\ processed_dir' = processed_dir
           /\ processed_dfs' = processed_dfs
           /\ success_count' = success_count ]_vars

\* the first run is over a directory whose only workbook lacks an Address
\* column: nothing was returned or written for it, and the three successes
\* counted are the other three inputs
C10_Witness ==
    /\ pc = "done"
    /\ run = 1
    /\ OnlyWorkbookDone(A_OT)
    /\ Unresolved(data_dir.xlsx[A_OT].df) = {"Address"}
    /\ processed_dfs = <<>>
    /\ processed_dir.csvs = <<>>
    /\ summary = <<3, 4>>

\* the files of PROCESSED_DIR written in this run by the given step
WrittenBy(by) == {writes[i].file : i \in {j \in DOMAIN writes : writes[j].by = by}}

\* C11 as claimed: when Full_ActiveCasesReport.xlsx is missing the run fails
\* and never persists its outputs: no per-office table is written.
C11_MissingReportFails ==
    ~Exists(data_dir.full) => WrittenBy("shape") = {}

\* C11 amended: when Full_ActiveCasesReport.xlsx is missing the run does not
\* fail: the index is not built and the join is skipped, the table of every
\* workbook that is shaped is still written, without therapist columns, and
\* the run reaches its summary, in which the report is not counted.
C11_MissingReportSkipsJoin ==
    ~Exists(data_dir.full) =>
        /\ ~has_full_report
        /\ WrittenBy("index") = {} /\ WrittenBy("enrich") = {}
        /\ \A n \in Attempted :
              process_excel_file(data_dir.xlsx[n]).ok =>
                  /\ output_filename(n) \in WrittenBy("shape")
                  /\ Cardinality(DOMAIN data_dir.xlsx) = 1 =>
                        processed_dir.csvs[output_filename(n)] =
                            to_csv(process_excel_file(data_dir.xlsx[n]).df)
        /\ pc = "done" =>
              /\ Attempted = DOMAIN data_dir.xlsx
              /\ summary = <<success_count, total_files>>
              /\ total_files = Cardinality(DOMAIN data_dir.xlsx)
                     + (IF Exists(data_dir.ActiveTherapists) THEN 1 ELSE 0)
                     + (IF Exists(data_dir.NeedStaff) THEN 1 ELSE 0)

\* a run without the report is over: the table of its workbook was written
\* as shaped and the summary counts three inputs
C11_Witness ==
    /\ pc = "done"
    /\ ~Exists(data_dir.full)
    /\ A_OT \in DOMAIN data_dir.xlsx
    /\ output_filename(A_OT) \in DOMAIN processed_dir.csvs
    /\ processed_dir.csvs[output_filename(A_OT)].cols =
          <<"Patient_Id", "Address", "Status", "Name", "Age", "City", "State", "Zip">>
    /\ summary = <<3, 3>>

\* the CanonicalRecord field set, under the names the tables give the fields
CanonicalFields ==
    {"Patient_Id", "Name", "Age", "Address", "City", "State", "Zip", "Status"}
SourceFields == {"SourceOffice", "SourceDiscipline"}

\* C13: every per-sheet table the shaper writes has exactly the fields
\* PatientId, Name, Age, Address, City, State, Zip, Status, SourceOffice and
\* SourceDiscipline, whatever optional columns the sheet had.
C13_CanonicalFieldSet ==
    \A i \in DOMAIN processed_dfs :
        Range(processed_dfs[i].cols) = CanonicalFields \cup SourceFields

\* the same without the two source fields, which no table has
C13_CanonicalButSource ==
    \A i \in DOMAIN processed_dfs : Range(processed_dfs[i].cols) = CanonicalFields

\* the characters of file names in the order of their codes
AsciiOrder ==
    <<" ", "(", ")", ".", "0", "1", "2", "3", "4", "5", "6", "7", "8", "9">>
        \o UpperSeq \o <<"_">> \o LowerSeq
Ord(c) == CHOOSE i \in DOMAIN AsciiOrder : AsciiOrder[i] = c

\* a < b for two file names
RECURSIVE NameLess(_, _)
NameLess(a, b) ==
    IF b = <<>> THEN FALSE
    ELSE IF a = <<>> THEN TRUE
    ELSE IF Head(a) = Head(b) THEN NameLess(Tail(a), Tail(b))
    ELSE Ord(Head(a)) < Ord(Head(b))

Ascending(names) == \A i, j \in DOMAIN names : i < j => NameLess(names[i], names[j])

\* the files a step has written in this run, in the order it wrote them
WritesBy(by) ==
    LET w == SelectSeq(writes, LAMBDA x : x.by = by)
    IN [i \in DOMAIN w |-> w[i].file]

\* C15: in every run the sheets are shaped, joined and merged one at a time
\* in ascending order of file name: the workbooks are shaped in ascending
\* order, the join rewrites the tables in ascending order and the merge is
\* given the tables in ascending order.
C15_AscendingOrder ==
    /\ Ascending(excel_files)
    /\ Ascending(WritesBy("enrich"))
    /\ Ascending([i \in DOMAIN patient_dfs |-> patient_dfs[i][1]])

\* the positions of main, in the order of its code
MainOrder == <<"start", "need_staff", "full_report", "glob", "sheets", "summary", "done">>
MainPosition(p) == CHOOSE i \in DOMAIN MainOrder : MainOrder[i] = p

\* the join has been run in this run
Joined == pc \in {"summary", "done"}

TimesWritten(file, by) ==
    Cardinality({i \in DOMAIN writes : writes[i] = Written(file, by)})

\* the workbooks taken so far in this run whose table goes to this file
ShapedInto(file) == {n \in Attempted : output_filename(n) = file}

Signature(df, i) == \E r \in DOMAIN df.rows : AllowListed(df.rows[r][df.cols[i]])

\* the column the three tiers, tried in the order name, position, content,
\* bind to Status
ExpectedStatus(df) ==
    LET named == {i \in DOMAIN df.cols : df.cols[i] = "Status"}
        signed == {i \in DOMAIN df.cols : Signature(df, i)}
    IN IF named # {} THEN [tier |-> "name", col |-> SetMin(named)]
       ELSE IF StatusIndex + 1 \in signed THEN [tier |-> "position", col |-> StatusIndex + 1]
       ELSE IF signed # {} THEN [tier |-> "content", col |-> SetMin(signed)]
       ELSE [tier |-> "none", col |-> 0]

\* the statuses of the rows the shaper keeps when Status is this column
StatusesKept(df, col) ==
    LET all == [r \in DOMAIN df.rows |-> lower(astype_str(df.rows[r][df.cols[col]]))]
    IN SelectSeq(all, AllowListed)

\* C18: the tiers are tried in fixed priority and the first success wins: a
\* column headed Status is bound whatever the other columns hold; otherwise
\* the column at the fixed position is bound when it satisfies the content
\* signature, even if a column to its left satisfies it too; otherwise the
\* leftmost column that satisfies the signature is bound. The statuses of
\* the table returned are those of the column so bound.
C18_TierPriority ==
    \A n \in ResolvedSheets :
        LET df == data_dir.xlsx[n].df
        IN /\ StatusBinding(df) = ExpectedStatus(df)
           /\ (OnlyWorkbookDone(n) /\ processed_dfs # <<>>)
              => [r \in DOMAIN processed_dfs[1].rows |-> processed_dfs[1].rows[r]["Status"]]
                    = StatusesKept(df, ExpectedStatus(df).col)

\* a sheet has been shaped that has a column headed Status, a column at the
\* fixed position and a column to the left of both that all satisfy the
\* signature: the statuses returned are those of the column headed Status
C18_Witness ==
    /\ pc = "done"
    /\ OnlyWorkbookDone(A_OT)
    /\ LET df == data_dir.xlsx[A_OT].df
       IN /\ Len(df.cols) > StatusIndex
          /\ Signature(df, StatusIndex + 1)
          /\ df.cols[StatusIndex + 1] # "Status"
          /\ \E i \in DOMAIN df.cols : df.cols[i] = "Address" /\ Signature(df, i)
          /\ StatusBinding(df).tier = "name"
          /\ Signature(df, StatusBinding(df).col)
    /\ Len(processed_dfs) = 1
    /\ processed_dfs[1].rows[1]["Status"] = <<"p","e","n","d","i","n","g">>

\* a sheet without a column headed Status has been shaped in which the
\* column at the fixed position and a column to its left satisfy the
\* signature: Status is the column at the fixed position
C18_WitnessPosition ==
    /\ pc = "done"
    /\ OnlyWorkbookDone(A_OT)
    /\ LET df == data_dir.xlsx[A_OT].df
       IN /\ "Status" \notin Range(df.cols)
          /\ \E i \in DOMAIN df.cols : i <= StatusIndex /\ Signature(df, i)
          /\ StatusBinding(df) = [tier |-> "position", col |-> StatusIndex + 1]
    /\ Len(processed_dfs) = 1

\* the address, city, state and zip of a row
LocationOf(row) == <<row["Address"], row["City"], row["State"], row["Zip"]>>

\* the row's own address, city, state and zip are all present
RowComplete(row) == \A i \in 1..4 : notna(LocationOf(row)[i])

\* C20: the decision to normalize is taken per row: of a sheet all of whose
\* rows are kept, a row whose own address, city, state and zip are present
\* is normalized, and every other row keeps its raw values.
C20_PerRowDecision ==
    \A n \in DOMAIN data_dir.xlsx :
        LET df == data_dir.xlsx[n].df
        IN (/\ OnlyWorkbookDone(n)
            /\ df.cols = StandardCols
            /\ Len(processed_dfs) = 1
            /\ Len(processed_dfs[1].rows) = Len(df.rows))
           => \A r \in DOMAIN df.rows :
                 LocationOf(processed_dfs[1].rows[r]) =
                     IF RowComplete(df.rows[r]) THEN normalize_row(LocationOf(df.rows[r]))
                     ELSE LocationOf(df.rows[r])

\* the same, for the rows that are complete only
C20_CompleteRowsNormalized ==
    \A n \in DOMAIN data_dir.xlsx :
        LET df == data_dir.xlsx[n].df
        IN (/\ OnlyWorkbookDone(n)
            /\ df.cols = StandardCols
            /\ Len(processed_dfs) = 1
            /\ Len(processed_dfs[1].rows) = Len(df.rows))
           => \A r \in DOMAIN df.rows :
                 RowComplete(df.rows[r]) =>
                    LocationOf(processed_dfs[1].rows[r]) = normalize_row(LocationOf(df.rows[r]))

\* the sheet has the standard columns and no row of it has a status of the
\* allow-list
NoRowAllowed(df) ==
    /\ df.cols = StandardCols
    /\ df.rows # <<>>
    /\ \A r \in DOMAIN df.rows : ~AllowListed(df.rows[r]["Status"])

\* C21: a sheet every row of which has a status outside the allow-list is
\* not an error: a table of zero rows is returned and written for it, and
\* the sheet is counted as a success.
C21_EmptyTableIsSuccess ==
    \A n \in DOMAIN data_dir.xlsx :
        (pc = "done" /\ OnlyWorkbookDone(n) /\ NoRowAllowed(data_dir.xlsx[n].df))
            => /\ Len(processed_dfs) = 1
               /\ processed_dfs[1].rows = <<>>
               /\ output_filename(n) \in WrittenBy("shape")
               /\ summary[1] = summary[2]

AcceptedStatuses == {KwActive, KwHomeCare, KwPending}

\* C22: every record the shaper emits has a Status that is lowercase and is
\* one of 'active', 'home care', 'pending'.
C22_AcceptedStatus ==
    \A i \in DOMAIN processed_dfs : \A r \in DOMAIN processed_dfs[i].rows :
        LET status == processed_dfs[i].rows[r]["Status"]
        IN status = lower(status) /\ status \in AcceptedStatuses

\* the lowercase half of it
C22_LowercaseStatus ==
    \A i \in DOMAIN processed_dfs : \A r \in DOMAIN processed_dfs[i].rows :
        LET status == processed_dfs[i].rows[r]["Status"]
        IN status = lower(status) /\ AllowListed(status)

\* the keys of the index the join has loaded
IndexKeys ==
    {processed_dir.patient_therapist_map[1][i].key :
        i \in DOMAIN processed_dir.patient_therapist_map[1]}

\* the join has run in this run with an index
JoinedWithIndex ==
    Joined /\ has_full_report /\ Exists(processed_dir.patient_therapist_map)

\* C23: the join attaches an assignment to a patient if and only if the
\* patient's display name is equal, as a string, to a key of the index;
\* every other patient keeps empty Therapist and Therapist_Caseload fields,
\* and a patient without a match does not make the join fail: every table
\* with rows is joined.
C23_ExactNameJoin ==
    JoinedWithIndex =>
        \A f \in DOMAIN processed_dir.csvs :
            LET csv == processed_dir.csvs[f]
                map == processed_dir.patient_therapist_map[1]
            IN (IsProcessedCsv(f) /\ csv.rows # <<>>) =>
                  /\ {"Therapist", "Therapist_Caseload"} \subseteq Range(csv.cols)
                  /\ \A r \in DOMAIN csv.rows :
                        LET row == csv.rows[r]
                        IN IF row["Name"] \in IndexKeys
                           THEN /\ row["Therapist"] = DictGet(map, row["Name"]).therapist
                                /\ row["Therapist_Caseload"]
                                      = to_csv_cell(DictGet(map, row["Name"]).caseload)
                           ELSE row["Therapist"] = <<>> /\ row["Therapist_Caseload"] = <<>>

\* a run has joined two tables: Ann Lee has her therapist, and so has Bob Ray
C23_Witness ==
    /\ pc = "done"
    /\ JoinedWithIndex
    /\ \E f, g \in DOMAIN processed_dir.csvs :
          /\ f # g
          /\ processed_dir.csvs[f].rows[1]["Name"] = <<"A","n","n"," ","L","e","e">>
          /\ processed_dir.csvs[f].rows[1]["Therapist"] # <<>>
          /\ processed_dir.csvs[g].rows[1]["Name"] = <<"B","o","b"," ","R","a","y">>
          /\ processed_dir.csvs[g].rows[1]["Therapist"] = <<"S","u","e"," ","K","i","m">>

\* a run has joined a table whose patient Ann Lee is in the index as
\* "ann lee" only: she has no therapist
C23_WitnessUnmatched ==
    /\ pc = "done"
    /\ JoinedWithIndex
    /\ IndexKeys = {<<"a","n","n"," ","l","e","e">>}
    /\ \E f \in DOMAIN processed_dir.csvs :
          /\ processed_dir.csvs[f].rows[1]["Name"] = <<"A","n","n"," ","L","e","e">>
          /\ processed_dir.csvs[f].rows[1]["Therapist"] = <<>>

\* the therapist field is a name followed by a caseload annotation: it ends,
\* in any letter case, with "cases" or "cases)" and holds a number
Annotated(s) ==
    LET l == lower(s)
        n == Len(l)
    IN /\ \E i \in DOMAIN s : IsDigit(s[i])
       /\ \/ n >= 5 /\ SubSeq(l, n - 4, n) = <<"c","a","s","e","s">>
          \/ n >= 6 /\ SubSeq(l, n - 5, n) = <<"c","a","s","e","s",")">>

\* the name X of "X (N Active Cases)", "X (N cases)", "X N Active Cases" and
\* "X N cases": the text before the parenthesis or the number
NameBeforeAnnotation(s) ==
    LET i == SetMin({i \in DOMAIN s : s[i] = "(" \/ IsDigit(s[i])})
    IN strip(SubSeq(s, 1, i - 1))

\* C24: index construction removes the caseload annotation from every
\* therapist name: for a therapist field "X (N Active Cases)", "X (N cases)",
\* "X N Active Cases" or "X N cases", in any letter case, the display name
\* of the index table is "X".
C24_AnnotationRemoved ==
    Exists(processed_dir.PatientTherapistMap) =>
        \A r \in DOMAIN processed_dir.PatientTherapistMap[1].rows :
            LET row == processed_dir.PatientTherapistMap[1].rows[r]
            IN Annotated(row["Therapist"])
                  => row["Therapist_Name"] = NameBeforeAnnotation(row["Therapist"])

\* the same for the one form "X N cases" in lowercase
C24_BareLowercaseRemoved ==
    Exists(processed_dir.PatientTherapistMap) =>
        \A r \in DOMAIN processed_dir.PatientTherapistMap[1].rows :
            LET row == processed_dir.PatientTherapistMap[1].rows[r]
            IN row["Therapist"] = <<"S","u","e"," ","K","i","m"," ","5"," ","c","a","s","e","s">> => row["Therapist_Name"] = <<"S","u","e"," ","K","i","m">>

\* C25: the index a run's join uses is the one built in that same run: when
\* the join has run with an index, patient_therapist_map.pickle was written
\* earlier in the run.
C25_IndexOfThisRun ==
    JoinedWithIndex => PatientTherapistMapPickle \in WrittenBy("index")

\* the same for the runs in which the pickle files can be written
C25_IndexOfThisRunUnlocked ==
    (JoinedWithIndex /\ run \notin pickle_locked)
        => PatientTherapistMapPickle \in WrittenBy("index")

\* main is at a step it can take: the guards of its steps
HasNextStep ==
    \/ pc \in {"start", "need_staff", "full_report", "glob", "summary"}
    \/ pc = "sheets" /\ file_idx \in 1..(Len(excel_files) + 1)

\* the workbooks process_excel_file returned None for
FailedSheets == {n \in Attempted : ~process_excel_file(data_dir.xlsx[n]).ok}

\* C27: no failed input ends the run: until the summary is printed main has
\* a next step, and once the loop is over every workbook of DATA_DIR has been
\* through process_excel_file, each listed once, whatever failed before it;
\* a run that is over has printed its summary.
C27_FailureNeverAborts ==
    /\ summary = <<>> => HasNextStep
    /\ pc \in {"summary", "done"} =>
          /\ Attempted = DOMAIN data_dir.xlsx
          /\ Len(excel_files) = Cardinality(DOMAIN data_dir.xlsx)
          /\ file_idx = Len(excel_files) + 1
    /\ pc = "done" => summary # <<>>

\* a run that is over in which the first workbook failed and the second was
\* shaped, with NeedStaff.csv missing
C27_Witness ==
    /\ pc = "done"
    /\ summary # <<>>
    /\ Len(excel_files) = 2
    /\ excel_files[1] \in FailedSheets
    /\ output_filename(excel_files[2]) \in WrittenBy("shape")
    /\ ~Exists(data_dir.NeedStaff)

\* a run that is over with no ActiveTherapists.csv, no NeedStaff.csv, no
\* aggregate workbook and a workbook that cannot be read
C27_WitnessAllMissing ==
    /\ pc = "done"
    /\ summary = <<0, 1>>
    /\ ~Exists(data_dir.ActiveTherapists)
    /\ ~Exists(data_dir.NeedStaff)
    /\ ~Exists(data_dir.full)
    /\ FailedSheets = DOMAIN data_dir.xlsx

\* the inputs of a run that were skipped or failed: the two CSV files when
\* missing, the aggregate workbook when missing or unusable, the workbooks
\* process_excel_file returned None for
Count(b) == IF b THEN 1 ELSE 0
FullReportFailed == ~(Exists(data_dir.full) /\ FullReportUsable(data_dir.full[1]))
FailedInputs ==
    Count(~Exists(data_dir.ActiveTherapists)) + Count(~Exists(data_dir.NeedStaff))
        + Count(FullReportFailed) + Cardinality(FailedSheets)

\* C28: the summary of a run accounts for every input: success_count is at
\* most total_files and total_files - success_count is the number of inputs
\* that were skipped or failed.
C28_SummaryAccounts ==
    summary # <<>> =>
        /\ summary[1] <= summary[2]
        /\ summary[2] - summary[1] = FailedInputs

\* what the counts do account for: the inputs that were found and failed
C28_SummaryCountsFoundInputs ==
    summary # <<>> =>
        /\ summary[1] <= summary[2]
        /\ summary[2] - summary[1] =
              Count(Exists(data_dir.full) /\ FullReportFailed) + Cardinality(FailedSheets)

\* the tables the merge pass of kml_generator read
Merged == {patient_dfs[i][1] : i \in DOMAIN patient_dfs}

\* C29: the join pass and the merge pass consume only the tables shaped in
\* the same run: every table the join rewrote and every table the merge read
\* was written by process_excel_file earlier in the run.
C29_OnlyTablesOfThisRun ==
    /\ WrittenBy("enrich") \subseteq WrittenBy("shape")
    /\ kml_pc = "done" => Merged \subseteq WrittenBy("shape")

----------------------------------------------------------------------------
(* Claims about the comparator (SpecSheet) *)

\* the Patient_Id fields of the processed tables
ProcessedPatientIds ==
    UNION {{f.rows[r]["Patient_Id"] : r \in DOMAIN f.rows} : f \in Range(patient_files)}
        \ {<<>>}

\* the rows below the header whose column A holds the Patient_Id of a
\* processed patient
RowsOfProcessedPatients ==
    {i \in 2..Len(sheet_values) :
        Len(sheet_values[i]) > 0 /\ sheet_values[i][1] \in ProcessedPatientIds}

MarkOf(i) == [range |-> [col |-> "I", row |-> i], values |-> "Already Staffed"]

\* NeedStaff.csv holds the identifiers of the worksheet, row by row
SnapshotCurrent ==
    /\ Exists(need_staff_file)
    /\ Len(need_staff_file[1].rows) = Len(sheet_values) - 1
    /\ \A r \in DOMAIN need_staff_file[1].rows :
          /\ Len(sheet_values[r + 1]) > 0
          /\ sheet_values[r + 1][1] = need_staff_file[1].rows[r]["ID"]

\* C12: when no request fails, the cells written are "Already Staffed" in
\* column I of exactly the rows below the header whose column-A identifier is
\* the Patient_Id of a processed patient, and nothing else is written.
C12_MarksMatchingRows ==
    cmp_pc = "done" /\ ~cmp_api_error /\ SnapshotCurrent
        => sheet_updates = {MarkOf(i) : i \in RowsOfProcessedPatients}

\* the updates compare_staff_data prepared for the worksheet
Prepared == batch_updates(sheet_values, Matches(need_staff_file[1], patient_files))
\* the batches whose batchUpdate request failed
FailedBatches == {r.batch : r \in {r \in cmp_requests : r.kind = "batchUpdate" /\ r.outcome # "ok"}}
BatchesSent == {r.batch : r \in {r \in cmp_requests : r.kind = "batchUpdate"}}
SentSingly == {r.update : r \in {r \in cmp_requests : r.kind = "update"}}
Fallback(b) ==
    /\ \A k \in DOMAIN Prepared : BatchOf(k) = b => k \in SentSingly
    /\ \A later \in (b + 1)..NumBatches(Len(Prepared)) : later \in BatchesSent

\* C26: when a batched write fails, every update of that batch is retried in
\* a request of its own, whatever became of the other retries, and every
\* later batch is still sent.
C26_FallbackPerRow ==
    cmp_pc = "done" => \A b \in FailedBatches : Fallback(b)

\* the same for the batches refused with an HttpError
C26_FallbackAfterHttpError ==
    cmp_pc = "done" =>
        \A r \in cmp_requests :
            (r.kind = "batchUpdate" /\ r.outcome = "HttpError") => Fallback(r.batch)


\* C30: the count update_google_sheet returns is the number of rows written
\* to the worksheet, and the result of compare_staff_data, once writes were
\* requested, tells whether any row was written.
C30_CountIsRowsWritten ==
    cmp_pc = "done" =>
        /\ update_count = Cardinality(sheet_updates)
        /\ cmp_requests # {} => cmp_ret = (Cardinality(sheet_updates) > 0)

\* the same when every request sent was accepted
C30_CountWhenAllAccepted ==
    (cmp_pc = "done" /\ \A r \in cmp_requests : r.outcome = "ok") =>
        /\ update_count = Cardinality(sheet_updates)
        /\ cmp_requests # {} => cmp_ret = (Cardinality(sheet_updates) > 0)


============================================================================
